---- MODULE Spec2Model ----
(***************************************************************************)
(* Workboard server (server/api/api.go, latest revision, lines 89-1128):   *)
(* the reconciliation function convertGitHubToWorkboardCodeReview and the  *)
(* RPC handlers that read and write the "code_reviews" map under dbMutex.  *)
(*                                                                         *)
(* Times are Unix seconds.  An optional value (a Go pointer that may be    *)
(* nil) is a sequence of length 0 (nil) or 1.  The render-only fields and  *)
(* title/url/draft/check-rollup fields are recomputed from the remote on   *)
(* every call and read by no rule, so records carry only the workflow      *)
(* fields, the remote state and the remote updated-at time.                *)
(***************************************************************************)
EXTENDS Integers, Sequences, FiniteSets, TLC

----------------------------------------------------------------------------
(* Program constants *)

deleteAfterNowSeconds == 86400 * 30

\* 14*24*time.Hour, in seconds
mentionMaxAgeSeconds == 14 * 24 * 3600

\* 3600*4 in ReviewedDeleteOnMerge
bringBackAfterSeconds == 3600 * 4

\* time.Now().Unix()+60 in SnoozeUntilTime
snoozeMinAheadSeconds == 60

----------------------------------------------------------------------------
(* Bounds of the model *)

\* number of seconds on each side of a time landmark
MaxTick == 1

\* length of the fetched comment tail (the code asks for the last 20)
MaxComments == 1

\* seconds the clock advances while the workers run
MaxClock == 1

\* number of concurrent MarkMustReview calls, each on an id of its own
NumMarkers == 3

----------------------------------------------------------------------------
(* Optional values *)

Nil == << >>

Some(x) == << x >>

IsNil(o) == Len(o) = 0

Val(o) == o[1]

max(a, b) == IF a >= b THEN a ELSE b

----------------------------------------------------------------------------
(* proto.CodeReviewStatus and proto.GitHubPullRequestStatus *)

STATUS_UNSPECIFIED == "UNSPECIFIED"
STATUS_ARCHIVED == "ARCHIVED"
STATUS_CLOSED == "CLOSED"
STATUS_DELETED == "DELETED"
STATUS_MERGED == "MERGED"
STATUS_MUST_REVIEW == "MUST_REVIEW"
STATUS_NEW == "NEW"
STATUS_REVIEWED_DELETE_ON_MERGE == "REVIEWED_DELETE_ON_MERGE"
STATUS_SNOOZED_UNTIL_MENTIONED == "SNOOZED_UNTIL_MENTIONED"
STATUS_SNOOZED_UNTIL_TIME == "SNOOZED_UNTIL_TIME"
STATUS_SNOOZED_UNTIL_UPDATE == "SNOOZED_UNTIL_UPDATE"
STATUS_UPDATED_AFTER_SNOOZE == "UPDATED_AFTER_SNOOZE"
STATUS_MENTIONED == "MENTIONED"

\* the statuses the program writes (UNSPECIFIED is never assigned)
CodeReviewStatus ==
    { STATUS_ARCHIVED, STATUS_CLOSED, STATUS_DELETED, STATUS_MERGED, STATUS_MUST_REVIEW, STATUS_NEW,
      STATUS_REVIEWED_DELETE_ON_MERGE, STATUS_SNOOZED_UNTIL_MENTIONED, STATUS_SNOOZED_UNTIL_TIME,
      STATUS_SNOOZED_UNTIL_UPDATE, STATUS_UPDATED_AFTER_SNOOZE, STATUS_MENTIONED }

GH_OPEN == "GH_OPEN"
GH_CLOSED == "GH_CLOSED"
GH_MERGED == "GH_MERGED"
GH_UNSPECIFIED == "GH_UNSPECIFIED"

----------------------------------------------------------------------------
(* Reconciliation: convertGitHubToWorkboardCodeReview                      *)
(*                                                                         *)
(* A remote snapshot is the github.Issue plus the ExtraInfoGraphQLQuery:   *)
(*   id         issue.HTMLURL                                              *)
(*   state      issue.State, "open" or "closed"                            *)
(*   merged     issue.PullRequestLinks.MergedAt != nil                     *)
(*   archived   extraInfo.Repository.ArchivedAt set and not zero           *)
(*   updatedAt  issue.UpdatedAt.Unix()                                     *)
(*   comments   extraInfo.Repository.PullRequest.Comments.Nodes, each      *)
(*              [createdAt, updatedAt (optional), body]; a body is the     *)
(*              sequence of its words and contains a trigger when one of   *)
(*              its words is the trigger                                   *)
(***************************************************************************)

\* strings.Contains(comment.Body, trigger), on bodies as word sequences
Contains(body, trigger) == \E i \in 1..Len(body) : body[i] = trigger

\* commentTime: UpdatedAt if set, else CreatedAt
CommentTime(comment) ==
    IF ~IsNil(comment.updatedAt) THEN Val(comment.updatedAt) ELSE comment.createdAt

\* the loop over comments and triggers; lastMentionedAt is optional
RECURSIVE ScanMentions(_, _, _, _)
ScanMentions(comments, triggers, i, lastMentionedAt) ==
    IF i > Len(comments) THEN lastMentionedAt
    ELSE LET comment == comments[i]
             hit == \E t \in triggers : Contains(comment.body, t)
             next == IF hit /\ (IsNil(lastMentionedAt)
                                \/ CommentTime(comment) > Val(lastMentionedAt))
                     THEN Some(CommentTime(comment))
                     ELSE lastMentionedAt
         IN ScanMentions(comments, triggers, i + 1, next)

\* (mutant) an old mention is dropped whatever the state of the PR
DropStaleMentionWhateverState(lastMentionedAt, gitHubPullRequestStatus, now) ==
    IF /\ ~IsNil(lastMentionedAt)
       /\ now - Val(lastMentionedAt) > mentionMaxAgeSeconds
    THEN Nil
    ELSE lastMentionedAt

\* a mention older than 14 days on a PR that is not open is dropped
DropStaleMention(lastMentionedAt, gitHubPullRequestStatus, now) ==
    IF /\ ~IsNil(lastMentionedAt)
       /\ now - Val(lastMentionedAt) > mentionMaxAgeSeconds
       /\ gitHubPullRequestStatus # GH_OPEN
    THEN Nil
    ELSE lastMentionedAt

GitHubPullRequestStatus(remote) ==
    IF remote.merged /\ remote.state = "closed" THEN GH_MERGED
    ELSE IF remote.state = "open" THEN GH_OPEN
    ELSE IF remote.state = "closed" THEN GH_CLOSED
    ELSE GH_UNSPECIFIED

\* (mutant) the first status is taken from the remote state
FreshCodeReviewFromRemoteState(remote, now) ==
    [ id |-> remote.id,
      status |-> IF GitHubPullRequestStatus(remote) = GH_MERGED THEN STATUS_MERGED
                 ELSE STATUS_NEW,
      ghStatus |-> GitHubPullRequestStatus(remote),
      updatedAtTimestamp |-> remote.updatedAt,
      lastChanged |-> 0,
      lastRefreshed |-> now,
      lastMention |-> 0,
      lastUpdated |-> remote.updatedAt,
      lastVisited |-> 0,
      deleteAfter |-> 0,
      snoozeUntilUpdatedAtChangedFrom |-> 0,
      bringBackToReviewIfNotMergedUntilTimestamp |-> 0,
      snoozeUntilTimestamp |-> 0 ]

\* the record built before the existing one is looked at
FreshCodeReview(remote, now) ==
    [ id |-> remote.id,
      status |-> STATUS_NEW,
      ghStatus |-> GitHubPullRequestStatus(remote),
      updatedAtTimestamp |-> remote.updatedAt,
      lastChanged |-> 0,
      lastRefreshed |-> now,
      lastMention |-> 0,
      lastUpdated |-> remote.updatedAt,
      lastVisited |-> 0,
      deleteAfter |-> 0,
      snoozeUntilUpdatedAtChangedFrom |-> 0,
      bringBackToReviewIfNotMergedUntilTimestamp |-> 0,
      snoozeUntilTimestamp |-> 0 ]

\* the fields taken over from the existing record
MergeExisting(fresh, existing) ==
    [ fresh EXCEPT
        !.status = IF existing.status # STATUS_UNSPECIFIED THEN existing.status ELSE @,
        !.lastChanged = max(existing.lastChanged, @),
        !.lastMention = max(existing.lastMention, @),
        !.lastRefreshed = max(existing.lastRefreshed, @),
        !.lastVisited = max(existing.lastVisited, @),
        !.snoozeUntilUpdatedAtChangedFrom = existing.snoozeUntilUpdatedAtChangedFrom,
        !.bringBackToReviewIfNotMergedUntilTimestamp =
            existing.bringBackToReviewIfNotMergedUntilTimestamp,
        !.snoozeUntilTimestamp = existing.snoozeUntilTimestamp ]

\* The rules of the state machine.  Each reads the existing record and the
\* remote; a rule that fires assigns fields of the record built so far.
MentionFires(existing, lastMentionedAt, repoIsArchived) ==
    /\ ~IsNil(lastMentionedAt)
    /\ Val(lastMentionedAt) > existing.lastMention
    /\ ~repoIsArchived

MergeFires(existing, gh) ==
    /\ existing.status # STATUS_MERGED
    /\ existing.status # STATUS_MENTIONED
    /\ gh = GH_MERGED

\* (mutant) the window ends a second before the deadline
ReviewWindowFiresEarly(existing, now) ==
    /\ existing.status = STATUS_REVIEWED_DELETE_ON_MERGE
    /\ existing.bringBackToReviewIfNotMergedUntilTimestamp <= now + 1

ReviewWindowFires(existing, now) ==
    /\ existing.status = STATUS_REVIEWED_DELETE_ON_MERGE
    /\ existing.bringBackToReviewIfNotMergedUntilTimestamp <= now

\* (mutant) close detection is not held back for a MENTIONED record
CloseFiresOnMentioned(existing, gh) ==
    /\ existing.status # STATUS_CLOSED
    /\ gh = GH_CLOSED

CloseFires(existing, gh) ==
    /\ existing.status # STATUS_CLOSED
    /\ existing.status # STATUS_MENTIONED
    /\ gh = GH_CLOSED

\* (mutant) the snooze is lifted a minute before its deadline
TimeUnsnoozeFiresEarly(existing, now) ==
    /\ existing.status = STATUS_SNOOZED_UNTIL_TIME
    /\ existing.snoozeUntilTimestamp <= now + snoozeMinAheadSeconds

TimeUnsnoozeFires(existing, now) ==
    /\ existing.status = STATUS_SNOOZED_UNTIL_TIME
    /\ existing.snoozeUntilTimestamp <= now

UpdateUnsnoozeFires(existing, updatedAtTimestamp) ==
    /\ existing.status = STATUS_SNOOZED_UNTIL_UPDATE
    /\ updatedAtTimestamp # existing.snoozeUntilUpdatedAtChangedFrom

ArchiveFires(existing, repoIsArchived) ==
    /\ repoIsArchived
    /\ existing.status # STATUS_ARCHIVED

\* (mutant) only a deleted record with a retention deadline is returned early
DeletedReturnsEarlyWithDeadline(existing) ==
    existing.status = STATUS_DELETED /\ existing.deleteAfter # 0

\* a deleted record is returned before any rule is looked at
\* (mutant) no early return: the rules run on a DELETED record
DeletedNeverReturnsEarly(existing) == FALSE

DeletedReturnsEarly(existing) == existing.status = STATUS_DELETED

\* (mutant) the mention rule is not looked at for a finished PR
ApplyMentionUnlessFinished(cr, existing, lastMentionedAt, repoIsArchived) ==
    IF /\ MentionFires(existing, lastMentionedAt, repoIsArchived)
       /\ existing.status \notin { STATUS_MERGED, STATUS_CLOSED }
    THEN [ cr EXCEPT !.status = STATUS_MENTIONED,
                     !.lastMention = Val(lastMentionedAt),
                     !.deleteAfter = 0 ]
    ELSE cr

ApplyMention(cr, existing, lastMentionedAt, repoIsArchived) ==
    IF MentionFires(existing, lastMentionedAt, repoIsArchived)
    THEN [ cr EXCEPT !.status = STATUS_MENTIONED,
                     !.lastMention = Val(lastMentionedAt),
                     !.deleteAfter = 0 ]
    ELSE cr

\* (mutant) the else branch is missing: every merge deletes
ApplyMergeAlwaysDeletes(cr, existing, gh, now) ==
    IF MergeFires(existing, gh)
    THEN [ cr EXCEPT !.status = STATUS_DELETED,
                     !.deleteAfter = now + deleteAfterNowSeconds ]
    ELSE cr

ApplyMerge(cr, existing, gh, now) ==
    IF MergeFires(existing, gh)
    THEN IF existing.status = STATUS_REVIEWED_DELETE_ON_MERGE
         THEN [ cr EXCEPT !.status = STATUS_DELETED,
                          !.deleteAfter = now + deleteAfterNowSeconds ]
         ELSE [ cr EXCEPT !.status = STATUS_MERGED ]
    ELSE cr

\* (mutant) the bring-back deadline is not cleared
ApplyReviewWindowKeepsDeadline(cr, existing, now) ==
    IF ReviewWindowFires(existing, now)
    THEN [ cr EXCEPT !.status = STATUS_MUST_REVIEW ]
    ELSE cr

ApplyReviewWindow(cr, existing, now) ==
    IF ReviewWindowFires(existing, now)
    THEN [ cr EXCEPT !.status = STATUS_MUST_REVIEW,
                     !.bringBackToReviewIfNotMergedUntilTimestamp = 0 ]
    ELSE cr

ApplyClose(cr, existing, gh) ==
    IF CloseFires(existing, gh) THEN [ cr EXCEPT !.status = STATUS_CLOSED ] ELSE cr

\* (mutant) the snooze deadline is not cleared
ApplyTimeUnsnoozeKeepsDeadline(cr, existing, now) ==
    IF TimeUnsnoozeFires(existing, now)
    THEN [ cr EXCEPT !.status = STATUS_MUST_REVIEW ]
    ELSE cr

ApplyTimeUnsnooze(cr, existing, now) ==
    IF TimeUnsnoozeFires(existing, now)
    THEN [ cr EXCEPT !.status = STATUS_MUST_REVIEW, !.snoozeUntilTimestamp = 0 ]
    ELSE cr

\* (mutant) the baseline is not cleared
ApplyUpdateUnsnoozeKeepsBaseline(cr, existing, updatedAtTimestamp) ==
    IF UpdateUnsnoozeFires(existing, updatedAtTimestamp)
    THEN [ cr EXCEPT !.status = STATUS_UPDATED_AFTER_SNOOZE ]
    ELSE cr

ApplyUpdateUnsnooze(cr, existing, updatedAtTimestamp) ==
    IF UpdateUnsnoozeFires(existing, updatedAtTimestamp)
    THEN [ cr EXCEPT !.status = STATUS_UPDATED_AFTER_SNOOZE,
                     !.snoozeUntilUpdatedAtChangedFrom = 0 ]
    ELSE cr

\* (mutant) archival leaves a status that an earlier rule assigned
ApplyArchiveUnlessAssigned(cr, existing, repoIsArchived) ==
    IF ArchiveFires(existing, repoIsArchived) /\ cr.status = existing.status
    THEN [ cr EXCEPT !.status = STATUS_ARCHIVED ]
    ELSE cr

ApplyArchive(cr, existing, repoIsArchived) ==
    IF ArchiveFires(existing, repoIsArchived)
    THEN [ cr EXCEPT !.status = STATUS_ARCHIVED ]
    ELSE cr

\* (mutant) lastChanged is stamped in every call
TouchedAlways(existing, lastMentionedAt, remote, now) == TRUE

\* updateLastChangedToNow at the end of the function
Touched(existing, lastMentionedAt, remote, now) ==
    LET gh == GitHubPullRequestStatus(remote)
    IN \/ MentionFires(existing, lastMentionedAt, remote.archived)
       \/ MergeFires(existing, gh)
       \/ ReviewWindowFires(existing, now)
       \/ CloseFires(existing, gh)
       \/ TimeUnsnoozeFires(existing, now)
       \/ UpdateUnsnoozeFires(existing, remote.updatedAt)
       \/ ArchiveFires(existing, remote.archived)

\* the state machine, for an existing record that did not return early
StateMachine(merged, existing, lastMentionedAt, remote, now) ==
    LET gh == GitHubPullRequestStatus(remote)
        s1 == ApplyMention(merged, existing, lastMentionedAt, remote.archived)
        s2 == ApplyMerge(s1, existing, gh, now)
        s3 == ApplyReviewWindow(s2, existing, now)
        s4 == ApplyClose(s3, existing, gh)
        s5 == ApplyTimeUnsnooze(s4, existing, now)
        s6 == ApplyUpdateUnsnooze(s5, existing, remote.updatedAt)
        s7 == ApplyArchive(s6, existing, remote.archived)
    IN IF Touched(existing, lastMentionedAt, remote, now)
       THEN [ s7 EXCEPT !.lastChanged = now ]
       ELSE s7

\* convertGitHubToWorkboardCodeReview(issue, ..., getCodeReviewById, ...,
\* gitHubMentionTriggers, extraInfo, ...) with existing = the result of
\* getCodeReviewById(id) and now = time.Now()
convertGitHubToWorkboardCodeReview(remote, existing, triggers, now) ==
    LET gh == GitHubPullRequestStatus(remote)
        lastMentionedAt ==
            DropStaleMention(ScanMentions(remote.comments, triggers, 1, Nil), gh, now)
        fresh == FreshCodeReview(remote, now)
    IN IF IsNil(existing)
       THEN [ fresh EXCEPT !.lastChanged = remote.updatedAt ]
       ELSE LET merged == MergeExisting(fresh, Val(existing))
            IN IF DeletedReturnsEarly(Val(existing))
               THEN merged
               ELSE StateMachine(merged, Val(existing), lastMentionedAt, remote, now)

----------------------------------------------------------------------------
(* State *)

VARIABLES
    rcRemote,     \* reconcile harness: the remote snapshot of the calls
    rcExisting,   \* reconcile harness: the stored record (optional)
    rcNow,        \* reconcile harness: time.Now().Unix() of the calls
    rcOut,        \* reconcile harness: result of the first call (optional)
    rcOut2        \* reconcile harness: result of the call on rcOut (optional)

rcVars == << rcRemote, rcExisting, rcNow, rcOut, rcOut2 >>

VARIABLES
    db,           \* the "code_reviews" map of the database: id -> record
    dbMutex,      \* s.dbMutex: the worker holding it (optional)
    clock,        \* time.Now().Unix()
    pc,           \* per worker: the step its RPC is at
    op,           \* per worker: the RPC it handles
    arg,          \* per worker: the command (cmd) of the RPC
    codeReview,   \* per worker: the local codeReview (optional)
    issue,        \* per worker: the remote snapshot it fetched (optional)
    codeReviews,  \* per worker: the map read inside storeCodeReview (optional)
    ret,          \* per worker: "" while running, then "ok", "invalid",
                  \* "no such code review" or "err" (upstream or storage)
    interfered,   \* per worker (history): another worker wrote the store
                  \* after this worker read the record its write is based on
    loc,          \* per worker: the remaining ids of RefreshReviews, the
                  \* loops of relistCodeReviews and the err of the store
    hist,         \* per worker (history): when the RPC arrived, the store
                  \* then, what the RPC wrote and fetched since
    prev,         \* session (history): the first RPC and its response (optional)
    dbFails       \* reads and writes of the database may return an error

srvVars == << db, dbMutex, clock, pc, op, arg, codeReview, issue, codeReviews,
              ret, interfered, loc, hist, prev, dbFails >>

vars == << rcVars, srvVars >>

----------------------------------------------------------------------------
(* Inputs of the reconciliation function.  The local clock does not run   *)
(* backwards: every time that a record holds and that was read off it is   *)
(* <= now.  Deadlines (snooze, bring-back, delete-after) may lie in the    *)
(* future, and so may the remote's updatedAt, read off the remote's clock. *)

\* the configured mention triggers (github_mention_triggers)
gitHubMentionTriggers == { "@me", "@team" }

CommentBodies == { << "ping", "@me" >>, << "@you", "lgtm" >> }

\* the moment of the calls
CallTime == 2 * mentionMaxAgeSeconds

\* the seconds around now: deadlines just passed, passing now, still ahead
AroundNow(now) == { now + j : j \in (0 - MaxTick)..MaxTick }

\* exactly 14 days before now (the staleness limit) and the seconds before
OldTimes(now) == { now - mentionMaxAgeSeconds - j : j \in 0..MaxTick }

\* a comment was created long ago and is unedited or was edited just now
Comments(now) ==
    [ createdAt : OldTimes(now),
      updatedAt : { Nil, Some(now) },
      body : CommentBodies ]

\* comment tails of at most n comments, in the order of their creation
RECURSIVE CommentTails(_, _)
CommentTails(now, n) ==
    IF n = 0 THEN { << >> }
    ELSE LET shorter == CommentTails(now, n - 1)
         IN shorter \cup
            { Append(tail, c) :
                << tail, c >> \in
                    { tc \in { t \in shorter : Len(t) = n - 1 } \X Comments(now) :
                        \/ Len(tc[1]) = 0
                        \/ tc[1][Len(tc[1])].createdAt < tc[2].createdAt } }

\* updatedAt is stamped by the remote with its own clock: long ago, a second
\* ago, or a second ahead of the local clock
UpdatedAtValues(now) == { now - mentionMaxAgeSeconds - 1, now - 1, now + 1 }

Remotes(now) ==
    { r \in [ id : { 1 },
              state : { "open", "closed" },
              merged : BOOLEAN,
              archived : BOOLEAN,
              updatedAt : UpdatedAtValues(now),
              comments : CommentTails(now, MaxComments) ] :
        r.merged => r.state = "closed" }

\* the fields no rule reads, as two histories: a record never touched by
\* the user, and one visited, changed and given a retention deadline
PassiveProfiles(now) ==
    { [ lastChanged |-> now - mentionMaxAgeSeconds - 1, lastRefreshed |-> now - 1,
        lastVisited |-> 0, deleteAfter |-> 0 ],
      [ lastChanged |-> now - 1, lastRefreshed |-> now,
        lastVisited |-> now - 1, deleteAfter |-> now - 1 + deleteAfterNowSeconds ] }

\* a deadline is read only under the status it belongs to: there it takes
\* every value around now, elsewhere it is unset or a leftover
Deadlines(now, read) == IF read THEN { 0 } \cup AroundNow(now) ELSE { 0, now + 1 }

ExistingRecords(now) ==
    { [ id |-> 1,
        status |-> x.st,
        ghStatus |-> GH_OPEN,
        updatedAtTimestamp |-> now - mentionMaxAgeSeconds - 1,
        lastChanged |-> x.p.lastChanged,
        lastRefreshed |-> x.p.lastRefreshed,
        lastMention |-> x.lm,
        lastUpdated |-> now - mentionMaxAgeSeconds - 1,
        lastVisited |-> x.p.lastVisited,
        deleteAfter |-> x.p.deleteAfter,
        snoozeUntilUpdatedAtChangedFrom |-> x.sf,
        bringBackToReviewIfNotMergedUntilTimestamp |-> x.bb,
        snoozeUntilTimestamp |-> x.su ] :
        x \in { y \in [ st : CodeReviewStatus,
                        p : PassiveProfiles(now),
                        lm : { 0 } \cup { now - mentionMaxAgeSeconds - j : j \in 1..MaxTick },
                        sf : { 0, now - mentionMaxAgeSeconds - 1 },
                        bb : { 0 } \cup AroundNow(now) \cup { now + 1 },
                        su : { 0 } \cup AroundNow(now) \cup { now + 1 } ] :
                  /\ y.bb \in Deadlines(now, y.st = STATUS_REVIEWED_DELETE_ON_MERGE)
                  /\ y.su \in Deadlines(now, y.st = STATUS_SNOOZED_UNTIL_TIME) } }

----------------------------------------------------------------------------
(* The server: RPC handlers on their own goroutines.  A step is one        *)
(* access to the database, one remote call or one mutex operation; the     *)
(* local computation that follows an access belongs to its step.           *)
(* The github_user and github_mention_triggers keys are assumed to be      *)
(* configured.  A read or write of the "code_reviews" key can fail only in *)
(* behaviours that start with dbFails (db.Get and db.Set return an error   *)
(* and change nothing).  The deletes of the obsolete keys                  *)
(* "last_code_reviews_refresh" and the avatar URL key touch other keys and *)
(* only log on failure; they are left out.                                 *)

\* the first moment of the run
StartTime == CallTime

\* the ids the RPCs name; 2 has no record at the start
SrvIds == { 1, 2 }

Workers == { "w1", "w2" }

CommandNames ==
    { "DeleteReview", "MarkMustReview", "MarkVisited", "ReviewedDeleteOnMerge",
      "SnoozeUntilMentioned", "SnoozeUntilTime" }

RpcNames == CommandNames \cup { "RefreshReview", "SnoozeUntilUpdate" }

\* what the remote may answer for the PR id: any state, archived or not,
\* last updated at the start of the run or just now, without comments or
\* with one comment that mentions the user
SrvRemotes(id) ==
    { r \in [ id : { id },
              state : { "open", "closed" },
              merged : BOOLEAN,
              archived : BOOLEAN,
              updatedAt : { StartTime, clock },
              comments : { << >>,
                           << [ createdAt |-> StartTime - 1, updatedAt |-> Nil,
                                body |-> << "ping", "@me" >> ] >> } ] :
        r.merged => r.state = "closed" }

\* a record as discovery stored it for an open PR before the run
SeedRecord(id) ==
    convertGitHubToWorkboardCodeReview(
        [ id |-> id, state |-> "open", merged |-> FALSE, archived |-> FALSE,
          updatedAt |-> StartTime - 1, comments |-> << >> ],
        Nil, gitHubMentionTriggers, StartTime - 1)

\* (mutant) the index finds nothing
LookupFindsNothing(map, id) == Nil

\* codeReviews[codeReviewId] on a Go map: nil when the key is missing
Lookup(map, id) == IF id \in DOMAIN map THEN Some(map[id]) ELSE Nil

\* (mutant) the map holds values, not pointers: a missing key gives the
\* zero value of the record
getCodeReviewByIdZeroValue(id) ==
    IF id \in DOMAIN db THEN Some(db[id])
    ELSE Some([ FreshCodeReview([ id |-> id, state |-> "open", merged |-> FALSE,
                                  archived |-> FALSE, updatedAt |-> 0,
                                  comments |-> << >> ], 0)
                EXCEPT !.status = STATUS_UNSPECIFIED, !.ghStatus = GH_UNSPECIFIED ])

\* getCodeReviewById: getCodeReviews (db.Get of the whole map), then the index
getCodeReviewById(id) == Lookup(db, id)

\* (mutant) the map that is written back holds the new entry only
PutAlone(map, cr) == [ i \in { cr.id } |-> cr ]

\* (mutant) a DELETED record is taken out of the map
PutOrRemoveDeleted(map, cr) ==
    IF cr.status = STATUS_DELETED
    THEN [ i \in DOMAIN map \ { cr.id } |-> map[i] ]
    ELSE [ i \in DOMAIN map \cup { cr.id } |-> IF i = cr.id THEN cr ELSE map[i] ]

\* codeReviews[codeReview.Id] = codeReview
Put(map, cr) ==
    [ i \in DOMAIN map \cup { cr.id } |-> IF i = cr.id THEN cr ELSE map[i] ]

\* the locals of a handler before its first step
NoLocals == [ ids |-> << >>, queries |-> 0, issues |-> << >>, seen |-> { },
              err |-> FALSE ]

\* the history of a call at its first step
NoHistory(now, map) ==
    [ calledAt |-> now, db0 |-> map, wrote |-> << >>, fetched |-> << >>,
      now |-> 0, checkFailed |-> FALSE ]

\* the id the handler works on: cmd.CodeReviewId, the element of
\* cmd.CodeReviewIds the loop of RefreshReviews is at, or the id of the issue
\* the loop of relistCodeReviews is at
CurId(w) ==
    CASE op[w] = "RefreshReviews" -> Head(loc[w].ids)
      [] op[w] = "RelistReviews" -> Head(loc[w].issues)
      [] OTHER -> arg[w].codeReviewId

\* the worker moves on (the reconcile harness and the session are not part
\* of a handler)
Goto(w, label) ==
    /\ pc' = [ pc EXCEPT ![w] = label ]
    /\ UNCHANGED << rcVars, dbFails, prev >>

\* the handler returns result
Return(w, result) ==
    /\ ret' = [ ret EXCEPT ![w] = result ]
    /\ Goto(w, "done")

\* err != nil after a database access
SetErr(w) == loc' = [ loc EXCEPT ![w].err = TRUE ]

\* (mutant) the handler goes on without waiting for the mutex
CanLockUnguarded(w) == TRUE

\* s.dbMutex.Lock() returns when no goroutine holds the mutex
CanLock(w) == IsNil(dbMutex)

Lock(w, from, to) ==
    /\ pc[w] = from
    /\ CanLock(w)
    /\ dbMutex' = Some(w)
    /\ Goto(w, to)
    /\ UNCHANGED << db, clock, op, arg, codeReview, issue, codeReviews, ret,
                    interfered, loc, hist >>

\* (mutant) the mutex is not released when the store failed
ReturnUnlockUnlessError(w, from, result) ==
    /\ pc[w] = from
    /\ dbMutex' = IF loc[w].err THEN dbMutex ELSE Nil
    /\ Return(w, IF loc[w].err THEN "err" ELSE result)
    /\ UNCHANGED << db, clock, op, arg, codeReview, issue, codeReviews, interfered,
                    loc, hist >>

\* return with the deferred s.dbMutex.Unlock(): the error of the store, or
\* the result
ReturnUnlock(w, from, result) ==
    /\ pc[w] = from
    /\ dbMutex' = Nil
    /\ Return(w, IF loc[w].err THEN "err" ELSE result)
    /\ UNCHANGED << db, clock, op, arg, codeReview, issue, codeReviews, interfered,
                    loc, hist >>

\* storeCodeReview: read the whole map, set the entry, write the whole map;
\* when the read or the write fails nothing is written
StoreGet(w, from, mid, to) ==
    /\ pc[w] = from
    /\ \/ /\ codeReviews' = [ codeReviews EXCEPT ![w] = Some(db) ]
          /\ Goto(w, mid)
          /\ UNCHANGED loc
       \/ /\ dbFails
          /\ SetErr(w)
          /\ Goto(w, to)
          /\ UNCHANGED codeReviews
    /\ UNCHANGED << db, dbMutex, clock, op, arg, codeReview, issue, ret, interfered,
                    hist >>

StoreSet(w, from, to) ==
    /\ pc[w] = from
    /\ \/ /\ db' = Put(Val(codeReviews[w]), Val(codeReview[w]))
          /\ interfered' = [ v \in DOMAIN interfered |-> interfered[v] \/ v # w ]
          /\ hist' = [ hist EXCEPT ![w].wrote = Put(@, Val(codeReview[w])) ]
          /\ UNCHANGED loc
       \/ /\ dbFails
          /\ SetErr(w)
          /\ UNCHANGED << db, interfered, hist >>
    /\ codeReviews' = [ codeReviews EXCEPT ![w] = Nil ]
    /\ Goto(w, to)
    /\ UNCHANGED << dbMutex, clock, op, arg, codeReview, issue, ret >>

storeCodeReview(w, from, mid, to) == StoreGet(w, from, mid, to) \/ StoreSet(w, mid, to)

\* the mutations of the command handlers
\* (mutant) the retention deadline is not set
DeleteReviewMutationWithoutDeadline(cr, now, a) ==
    [ cr EXCEPT !.status = STATUS_DELETED, !.lastChanged = now ]

DeleteReviewMutation(cr, now, a) ==
    [ cr EXCEPT !.status = STATUS_DELETED,
                !.lastChanged = now,
                !.deleteAfter = now + deleteAfterNowSeconds ]

\* (mutant) lastChanged is not stamped
MarkMustReviewMutationUnstamped(cr, now, a) == [ cr EXCEPT !.status = STATUS_MUST_REVIEW ]

MarkMustReviewMutation(cr, now, a) ==
    [ cr EXCEPT !.status = STATUS_MUST_REVIEW, !.lastChanged = now ]

MarkVisitedMutation(cr, now, a) == [ cr EXCEPT !.lastVisited = now ]

ReviewedDeleteOnMergeMutation(cr, now, a) ==
    [ cr EXCEPT !.status = STATUS_REVIEWED_DELETE_ON_MERGE,
                !.lastChanged = now,
                !.bringBackToReviewIfNotMergedUntilTimestamp = now + bringBackAfterSeconds ]

SnoozeUntilMentionedMutation(cr, now, a) ==
    [ cr EXCEPT !.status = STATUS_SNOOZED_UNTIL_MENTIONED, !.lastChanged = now ]

SnoozeUntilTimeMutation(cr, now, a) ==
    [ cr EXCEPT !.status = STATUS_SNOOZED_UNTIL_TIME,
                !.lastChanged = now,
                !.snoozeUntilTimestamp = a.snoozeUntilTimestamp ]

\* (mutant) the baseline is the time of the call, not the remote updatedAt
SnoozeUntilUpdateMutationFromClock(cr, now, a) ==
    [ cr EXCEPT !.status = STATUS_SNOOZED_UNTIL_UPDATE,
                !.lastChanged = now,
                !.snoozeUntilUpdatedAtChangedFrom = now ]

SnoozeUntilUpdateMutation(cr, now, a) ==
    [ cr EXCEPT !.status = STATUS_SNOOZED_UNTIL_UPDATE,
                !.lastChanged = now,
                !.snoozeUntilUpdatedAtChangedFrom = cr.updatedAtTimestamp ]

Mutation(name, cr, now, a) ==
    CASE name = "DeleteReview" -> DeleteReviewMutation(cr, now, a)
      [] name = "MarkMustReview" -> MarkMustReviewMutation(cr, now, a)
      [] name = "MarkVisited" -> MarkVisitedMutation(cr, now, a)
      [] name = "ReviewedDeleteOnMerge" -> ReviewedDeleteOnMergeMutation(cr, now, a)
      [] name = "SnoozeUntilMentioned" -> SnoozeUntilMentionedMutation(cr, now, a)
      [] name = "SnoozeUntilTime" -> SnoozeUntilTimeMutation(cr, now, a)

\* under the mutex: getCodeReviewById fails, or "no such code review", or
\* the mutation
GetAndMutate(w) ==
    /\ pc[w] = "get"
    /\ \/ /\ dbFails
          /\ dbMutex' = Nil
          /\ Return(w, "err")
          /\ UNCHANGED << codeReview, interfered >>
       \/ LET existing == getCodeReviewById(arg[w].codeReviewId)
          IN IF IsNil(existing)
             THEN /\ dbMutex' = Nil
                  /\ Return(w, "no such code review")
                  /\ UNCHANGED << codeReview, interfered >>
             ELSE /\ codeReview' =
                       [ codeReview EXCEPT
                           ![w] = Some(Mutation(op[w], Val(existing), clock, arg[w])) ]
                  /\ interfered' = [ interfered EXCEPT ![w] = FALSE ]
                  /\ Goto(w, "store_get")
                  /\ UNCHANGED << dbMutex, ret >>
    /\ UNCHANGED << db, clock, op, arg, issue, codeReviews, loc, hist >>

\* Lock, defer Unlock, get, mutate, store, return: the body of DeleteReview,
\* MarkMustReview, MarkVisited, ReviewedDeleteOnMerge, SnoozeUntilMentioned
\* and, after its validation, SnoozeUntilTime
CommandBody(w) ==
    \/ Lock(w, "lock", "get")
    \/ GetAndMutate(w)
    \/ storeCodeReview(w, "store_get", "store_set", "unlock")
    \/ ReturnUnlock(w, "unlock", "ok")

DeleteReview(w) == op[w] = "DeleteReview" /\ CommandBody(w)

MarkMustReview(w) == op[w] = "MarkMustReview" /\ CommandBody(w)

MarkVisited(w) == op[w] = "MarkVisited" /\ CommandBody(w)

ReviewedDeleteOnMerge(w) == op[w] = "ReviewedDeleteOnMerge" /\ CommandBody(w)

SnoozeUntilMentioned(w) == op[w] = "SnoozeUntilMentioned" /\ CommandBody(w)

\* (mutant) a target exactly 60 seconds ahead is accepted
SnoozeTooSoonExclusive(snoozeUntilTimestamp, now) ==
    \/ snoozeUntilTimestamp <= 0
    \/ snoozeUntilTimestamp < now + snoozeMinAheadSeconds

\* the two checks of cmd.SnoozeUntilTimestamp
SnoozeTooSoon(snoozeUntilTimestamp, now) ==
    \/ snoozeUntilTimestamp <= 0
    \/ snoozeUntilTimestamp <= now + snoozeMinAheadSeconds

\* the validation of SnoozeUntilTime, before the mutex is taken
SnoozeUntilTimeValidate(w) ==
    /\ pc[w] = "validate"
    /\ hist' = [ hist EXCEPT ![w].now = clock ]
    /\ IF SnoozeTooSoon(arg[w].snoozeUntilTimestamp, clock)
       THEN Return(w, "invalid")
       ELSE /\ Goto(w, "lock")
            /\ UNCHANGED ret
    /\ UNCHANGED << db, dbMutex, clock, op, arg, codeReview, issue, codeReviews,
                    interfered, loc >>

SnoozeUntilTime(w) ==
    /\ op[w] = "SnoozeUntilTime"
    /\ (SnoozeUntilTimeValidate(w) \/ CommandBody(w))

\* (mutant) refreshCodeReview takes the mutex before its existence check
\* and keeps it over the remote calls
RefreshGetUnderLock(w) ==
    /\ pc[w] = "rf_get"
    /\ CanLock(w)
    /\ IF IsNil(getCodeReviewById(CurId(w)))
       THEN /\ Return(w, "no such code review")
            /\ UNCHANGED dbMutex
       ELSE /\ dbMutex' = Some(w)
            /\ Goto(w, "rf_fetch")
            /\ UNCHANGED ret
    /\ UNCHANGED << db, clock, op, arg, codeReview, issue, codeReviews,
                    interfered, loc, hist >>

\* refreshCodeReview: the existence check, without the mutex
RefreshGet(w) ==
    /\ pc[w] = "rf_get"
    /\ \/ /\ dbFails
          /\ Return(w, "err")
       \/ IF IsNil(getCodeReviewById(CurId(w)))
          THEN Return(w, "no such code review")
          ELSE /\ Goto(w, "rf_fetch")
               /\ UNCHANGED ret
    /\ UNCHANGED << db, dbMutex, clock, op, arg, codeReview, issue, codeReviews,
                    interfered, loc, hist >>

\* fetchGitHubPullRequestDetails up to its remote calls (in
\* refreshCodeReview with client.Issues.Get before it): the remote answers
\* with a snapshot, or a call fails
FetchDetails(w, from, to) ==
    /\ pc[w] = from
    /\ hist' = [ hist EXCEPT ![w].fetched = Append(@, CurId(w)) ]
    /\ \/ /\ \E r \in SrvRemotes(CurId(w)) :
                issue' = [ issue EXCEPT ![w] = Some(r) ]
          /\ Goto(w, to)
          /\ UNCHANGED ret
       \/ /\ Return(w, "err")
          /\ UNCHANGED issue
    /\ UNCHANGED << db, dbMutex, clock, op, arg, codeReview, codeReviews, interfered,
                    loc >>

\* the end of fetchGitHubPullRequestDetails:
\* convertGitHubToWorkboardCodeReview with getCodeReviewById read without
\* the mutex; the record that is written afterwards is based on this read
ConvertDetails(w, from, to) ==
    /\ pc[w] = from
    /\ \/ /\ codeReview' =
                [ codeReview EXCEPT
                    ![w] = Some(convertGitHubToWorkboardCodeReview(
                                  Val(issue[w]), getCodeReviewById(Val(issue[w]).id),
                                  gitHubMentionTriggers, clock)) ]
          /\ interfered' = [ interfered EXCEPT ![w] = FALSE ]
          /\ Goto(w, to)
          /\ UNCHANGED ret
       \/ /\ dbFails
          /\ Return(w, "err")
          /\ UNCHANGED << codeReview, interfered >>
    /\ UNCHANGED << db, dbMutex, clock, op, arg, issue, codeReviews, loc, hist >>

RefreshFetch(w) == FetchDetails(w, "rf_fetch", "rf_convert")

RefreshConvert(w) == ConvertDetails(w, "rf_convert", "rf_lock")

\* the return of refreshCodeReview with its deferred Unlock.  After an
\* error of the store every caller returns the error.  Otherwise
\* RefreshReview returns, SnoozeUntilUpdate goes on with the record
\* refreshCodeReview returned, and RefreshReviews goes on with the next id
RefreshReturn(w) ==
    /\ pc[w] = "rf_unlock"
    /\ dbMutex' = Nil
    /\ IF loc[w].err
       THEN /\ Return(w, "err")
            /\ UNCHANGED loc
       ELSE CASE op[w] = "SnoozeUntilUpdate" ->
                    /\ Goto(w, "su_mutate")
                    /\ UNCHANGED << ret, loc >>
              [] op[w] = "RefreshReviews" /\ Len(loc[w].ids) > 1 ->
                    /\ loc' = [ loc EXCEPT ![w].ids = Tail(@) ]
                    /\ Goto(w, "rf_get")
                    /\ UNCHANGED ret
              [] OTHER ->
                    /\ Return(w, "ok")
                    /\ UNCHANGED loc
    /\ UNCHANGED << db, clock, op, arg, codeReview, issue, codeReviews, interfered,
                    hist >>

refreshCodeReview(w) ==
    \/ RefreshGet(w)
    \/ RefreshFetch(w)
    \/ RefreshConvert(w)
    \/ Lock(w, "rf_lock", "rf_store_get")
    \/ storeCodeReview(w, "rf_store_get", "rf_store_set", "rf_unlock")
    \/ RefreshReturn(w)

RefreshReview(w) == op[w] = "RefreshReview" /\ refreshCodeReview(w)

\* SnoozeUntilUpdate after the refresh: mutate the returned record, then
\* Lock, defer Unlock, store, return
SnoozeUntilUpdateMutate(w) ==
    /\ pc[w] = "su_mutate"
    /\ codeReview' =
        [ codeReview EXCEPT
            ![w] = Some(SnoozeUntilUpdateMutation(Val(codeReview[w]), clock, arg[w])) ]
    /\ Goto(w, "su_lock")
    /\ UNCHANGED << db, dbMutex, clock, op, arg, issue, codeReviews, ret, interfered,
                    loc, hist >>

SnoozeUntilUpdate(w) ==
    /\ op[w] = "SnoozeUntilUpdate"
    /\ \/ refreshCodeReview(w)
       \/ SnoozeUntilUpdateMutate(w)
       \/ Lock(w, "su_lock", "su_store_get")
       \/ storeCodeReview(w, "su_store_get", "su_store_set", "su_unlock")
       \/ ReturnUnlock(w, "su_unlock", "ok")

\* const maxNumReviews
maxNumReviews == 20

\* (mutant) the cap is tested with >=
BatchInvalidInclusive(ids) == Len(ids) <= 0 \/ Len(ids) >= maxNumReviews

\* the two checks of cmd.CodeReviewIds
BatchInvalid(ids) == Len(ids) <= 0 \/ Len(ids) > maxNumReviews

RefreshReviewsValidate(w) ==
    /\ pc[w] = "rr_validate"
    /\ IF BatchInvalid(arg[w].codeReviewIds)
       THEN /\ Return(w, "invalid")
            /\ UNCHANGED loc
       ELSE /\ loc' = [ loc EXCEPT ![w].ids = arg[w].codeReviewIds ]
            /\ Goto(w, "rf_get")
            /\ UNCHANGED ret
    /\ UNCHANGED << db, dbMutex, clock, op, arg, codeReview, issue, codeReviews,
                    interfered, hist >>

\* the loop over cmd.CodeReviewIds returns at the first error of
\* refreshCodeReview
RefreshReviews(w) ==
    /\ op[w] = "RefreshReviews"
    /\ (RefreshReviewsValidate(w) \/ refreshCodeReview(w))

\* the four searches of relistCodeReviews: own, assigned, review-requested
\* and reviewed-by PRs
numRelistQueries == 4

\* what one search may return: the ids of the issues found, in order
SearchResults == { << >>, << 1 >>, << 2 >>, << 1, 2 >> }

\* client.Search.Issues through paginateGitHubResults for the next query,
\* or the end of the outer loop: "return nil" whatever err holds
RelistSearch(w) ==
    /\ pc[w] = "rl_search"
    /\ IF loc[w].queries = 0
       THEN /\ Return(w, "ok")
            /\ UNCHANGED loc
       ELSE \/ /\ \E res \in SearchResults :
                    loc' = [ loc EXCEPT ![w].queries = @ - 1,
                                        ![w].issues = res,
                                        ![w].err = FALSE ]
               /\ Goto(w, "rl_issue")
               /\ UNCHANGED ret
            \/ /\ Return(w, "err")
               /\ UNCHANGED loc
    /\ UNCHANGED << db, dbMutex, clock, op, arg, codeReview, issue, codeReviews,
                    interfered, hist >>

\* the head of the inner loop: skip a URL seen in this pass, else check
\* without the mutex whether the review is known; an error of that read
\* breaks out of the inner loop
RelistIssue(w) ==
    /\ pc[w] = "rl_issue"
    /\ IF loc[w].issues = << >>
       THEN /\ Goto(w, "rl_search")
            /\ UNCHANGED << loc, hist >>
       ELSE LET id == Head(loc[w].issues)
            IN IF id \in loc[w].seen
               THEN /\ loc' = [ loc EXCEPT ![w].issues = Tail(@) ]
                    /\ Goto(w, "rl_issue")
                    /\ UNCHANGED hist
               ELSE \/ /\ dbFails
                       /\ loc' = [ loc EXCEPT ![w].seen = @ \cup { id },
                                              ![w].issues = << >>,
                                              ![w].err = TRUE ]
                       /\ hist' = [ hist EXCEPT ![w].checkFailed = TRUE ]
                       /\ Goto(w, "rl_search")
                    \/ /\ IF IsNil(getCodeReviewById(id))
                          THEN /\ loc' = [ loc EXCEPT ![w].seen = @ \cup { id } ]
                               /\ Goto(w, "rl_fetch")
                          ELSE /\ loc' = [ loc EXCEPT ![w].seen = @ \cup { id },
                                                      ![w].issues = Tail(@) ]
                               /\ Goto(w, "rl_issue")
                       /\ UNCHANGED hist
    /\ UNCHANGED << db, dbMutex, clock, op, arg, codeReview, issue, codeReviews, ret,
                    interfered >>

\* after Lock, storeCodeReview, Unlock: the error of the store is returned,
\* else the inner loop goes on; the loop's issue and codeReview go out of scope
RelistStored(w) ==
    /\ pc[w] = "rl_unlock"
    /\ dbMutex' = Nil
    /\ IF loc[w].err
       THEN /\ Return(w, "err")
            /\ UNCHANGED loc
       ELSE /\ loc' = [ loc EXCEPT ![w].issues = Tail(@) ]
            /\ Goto(w, "rl_issue")
            /\ UNCHANGED ret
    /\ codeReview' = [ codeReview EXCEPT ![w] = Nil ]
    /\ issue' = [ issue EXCEPT ![w] = Nil ]
    /\ UNCHANGED << db, clock, op, arg, codeReviews, interfered, hist >>

relistCodeReviews(w) ==
    \/ RelistSearch(w)
    \/ RelistIssue(w)
    \/ FetchDetails(w, "rl_fetch", "rl_convert")
    \/ ConvertDetails(w, "rl_convert", "rl_lock")
    \/ Lock(w, "rl_lock", "rl_store_get")
    \/ storeCodeReview(w, "rl_store_get", "rl_store_set", "rl_unlock")
    \/ RelistStored(w)

RelistReviews(w) == op[w] = "RelistReviews" /\ relistCodeReviews(w)

\* the first step of each RPC
FirstStep(name) ==
    CASE name = "SnoozeUntilTime" -> "validate"
      [] name \in { "RefreshReview", "SnoozeUntilUpdate" } -> "rf_get"
      [] name = "RefreshReviews" -> "rr_validate"
      [] name = "RelistReviews" -> "rl_search"
      [] OTHER -> "lock"

\* the RPC name arrives with its command for worker w; h is what the caller
\* notes about the moment of the call
Begin(w, name, cmd, h) ==
    /\ pc[w] = "idle"
    /\ op' = [ op EXCEPT ![w] = name ]
    /\ arg' = [ arg EXCEPT ![w] = cmd ]
    /\ loc' = [ loc EXCEPT
                  ![w] = [ NoLocals EXCEPT
                             !.queries = IF name = "RelistReviews"
                                         THEN numRelistQueries ELSE 0 ] ]
    /\ hist' = [ hist EXCEPT ![w] = h ]
    /\ Goto(w, FirstStep(name))
    /\ UNCHANGED << db, dbMutex, clock, codeReview, issue, codeReviews, ret, interfered >>

\* an RPC on one review arrives for an idle worker
Call(w) ==
    /\ pc[w] = "idle"
    /\ \E name \in RpcNames, id \in SrvIds,
          ts \in { 0, StartTime + snoozeMinAheadSeconds, StartTime + snoozeMinAheadSeconds + 1 } :
        /\ name # "SnoozeUntilTime" => ts = 0
        /\ Begin(w, name, [ codeReviewId |-> id, snoozeUntilTimestamp |-> ts,
                            codeReviewIds |-> << >> ], NoHistory(0, << >>))

\* a second passes
Tick ==
    /\ clock < StartTime + MaxClock
    /\ clock' = clock + 1
    /\ UNCHANGED << db, dbMutex, pc, op, arg, codeReview, issue, codeReviews, ret,
                    interfered, loc, hist, prev, dbFails, rcVars >>

\* no RPC is in flight
InitWorkers(ws) ==
    /\ dbMutex = Nil
    /\ clock = StartTime
    /\ pc = [ w \in ws |-> "idle" ]
    /\ op = [ w \in ws |-> "" ]
    /\ arg = [ w \in ws |-> [ codeReviewId |-> 0, snoozeUntilTimestamp |-> 0,
                              codeReviewIds |-> << >> ] ]
    /\ codeReview = [ w \in ws |-> Nil ]
    /\ issue = [ w \in ws |-> Nil ]
    /\ codeReviews = [ w \in ws |-> Nil ]
    /\ ret = [ w \in ws |-> "" ]
    /\ interfered = [ w \in ws |-> FALSE ]
    /\ loc = [ w \in ws |-> NoLocals ]
    /\ hist = [ w \in ws |-> NoHistory(0, << >>) ]
    /\ prev = Nil

\* the reconcile harness is not running
InitHarness ==
    /\ rcNow = CallTime
    /\ rcRemote = CHOOSE r \in Remotes(CallTime) : TRUE
    /\ rcExisting = Nil
    /\ rcOut = Nil
    /\ rcOut2 = Nil

Init ==
    /\ InitHarness
    /\ InitWorkers(Workers)
    /\ dbFails = FALSE
    /\ db = [ i \in { 1 } |-> SeedRecord(i) ]

Next ==
    \/ Tick
    \/ \E w \in Workers :
        \/ Call(w)
        \/ DeleteReview(w)
        \/ MarkMustReview(w)
        \/ MarkVisited(w)
        \/ ReviewedDeleteOnMerge(w)
        \/ SnoozeUntilMentioned(w)
        \/ SnoozeUntilTime(w)
        \/ RefreshReview(w)
        \/ SnoozeUntilUpdate(w)

Spec == Init /\ [][Next]_vars

\* N concurrent MarkMustReview calls on N distinct ids that all have a record
InitMark ==
    /\ InitHarness
    /\ dbMutex = Nil
    /\ clock = StartTime
    /\ dbFails = FALSE
    /\ db = [ i \in 1..NumMarkers |-> SeedRecord(i) ]
    /\ pc = [ w \in 1..NumMarkers |-> "lock" ]
    /\ op = [ w \in 1..NumMarkers |-> "MarkMustReview" ]
    /\ arg = [ w \in 1..NumMarkers |-> [ codeReviewId |-> w, snoozeUntilTimestamp |-> 0,
                                        codeReviewIds |-> << >> ] ]
    /\ codeReview = [ w \in 1..NumMarkers |-> Nil ]
    /\ issue = [ w \in 1..NumMarkers |-> Nil ]
    /\ codeReviews = [ w \in 1..NumMarkers |-> Nil ]
    /\ ret = [ w \in 1..NumMarkers |-> "" ]
    /\ interfered = [ w \in 1..NumMarkers |-> FALSE ]
    /\ loc = [ w \in 1..NumMarkers |-> NoLocals ]
    /\ hist = [ w \in 1..NumMarkers |-> NoHistory(0, << >>) ]
    /\ prev = Nil

NextMark == Tick \/ \E w \in 1..NumMarkers : MarkMustReview(w)

SpecMark == InitMark /\ [][NextMark]_vars

----------------------------------------------------------------------------
(* A session: one client that makes an RPC, waits for the response and     *)
(* then refreshes a review, at once or just before the bring-back deadline *)
(* it set.  The first RPC is any RPC of the server; the                    *)
(* store is empty or holds review 1 at the start, and its reads and        *)
(* writes may fail.  The client notes the time and the store at each call. *)

SessionWorkers == { "u" }

AllRpcNames == RpcNames \cup { "RefreshReviews", "RelistReviews" }

\* n times the id
Repeat(id, n) == [ i \in 1..n |-> id ]

\* cmd.CodeReviewIds of the RefreshReviews calls: empty, short lists, a
\* list of maxNumReviews ids and a list of one more
Batches ==
    { << >>, << 1 >>, << 2 >>, << 1, 1 >>, << 1, 2 >>, << 2, 1 >>,
      Repeat(2, maxNumReviews), Repeat(2, maxNumReviews + 1) }

\* cmd.SnoozeUntilTimestamp of the SnoozeUntilTime calls
SnoozeTargets ==
    { -1, 0, StartTime + snoozeMinAheadSeconds, StartTime + snoozeMinAheadSeconds + 1,
      StartTime + snoozeMinAheadSeconds + 2 }

SessionCall(w) ==
    /\ pc[w] = "idle"
    /\ \E name \in AllRpcNames, id \in SrvIds, ts \in SnoozeTargets, ids \in Batches :
        /\ name # "SnoozeUntilTime" => ts = 0
        /\ name # "RefreshReviews" => ids = << >>
        /\ name \in { "RefreshReviews", "RelistReviews" } => id = 1
        /\ ~IsNil(prev) => name = "RefreshReview"
        /\ Begin(w, name, [ codeReviewId |-> id, snoozeUntilTimestamp |-> ts,
                            codeReviewIds |-> ids ], NoHistory(clock, db))

\* the client has the response of its first RPC and gets ready for the second
SessionNext(w) ==
    /\ pc[w] = "done"
    /\ IsNil(prev)
    /\ prev' = Some([ op |-> op[w], arg |-> arg[w], ret |-> ret[w],
                      db0 |-> hist[w].db0, db |-> db ])
    /\ pc' = [ pc EXCEPT ![w] = "idle" ]
    /\ op' = [ op EXCEPT ![w] = "" ]
    /\ ret' = [ ret EXCEPT ![w] = "" ]
    /\ codeReview' = [ codeReview EXCEPT ![w] = Nil ]
    /\ issue' = [ issue EXCEPT ![w] = Nil ]
    /\ loc' = [ loc EXCEPT ![w] = NoLocals ]
    /\ hist' = [ hist EXCEPT ![w] = NoHistory(0, << >>) ]
    /\ arg' = [ arg EXCEPT ![w] = [ codeReviewId |-> 0, snoozeUntilTimestamp |-> 0,
                                    codeReviewIds |-> << >> ] ]
    /\ UNCHANGED << db, dbMutex, clock, codeReviews, interfered, dbFails, rcVars >>

\* the client lets the time pass until the second before the bring-back
\* deadline that its ReviewedDeleteOnMerge set
SessionWait(w) ==
    /\ pc[w] = "idle"
    /\ ~IsNil(prev)
    /\ Val(prev).op = "ReviewedDeleteOnMerge"
    /\ Val(prev).ret = "ok"
    /\ LET deadline == Val(prev).db[Val(prev).arg.codeReviewId]
                            .bringBackToReviewIfNotMergedUntilTimestamp
       IN /\ clock < deadline - 1
          /\ clock' = deadline - 1
    /\ UNCHANGED << db, dbMutex, pc, op, arg, codeReview, issue, codeReviews, ret,
                    interfered, loc, hist, prev, dbFails, rcVars >>

InitSession ==
    /\ InitHarness
    /\ InitWorkers(SessionWorkers)
    /\ dbFails \in BOOLEAN
    /\ db \in { << >>, [ i \in { 1 } |-> SeedRecord(i) ] }

NextSession ==
    \/ Tick
    \/ \E w \in SessionWorkers :
        \/ SessionCall(w)
        \/ SessionNext(w)
        \/ SessionWait(w)
        \/ DeleteReview(w)
        \/ MarkMustReview(w)
        \/ MarkVisited(w)
        \/ ReviewedDeleteOnMerge(w)
        \/ SnoozeUntilMentioned(w)
        \/ SnoozeUntilTime(w)
        \/ RefreshReview(w)
        \/ SnoozeUntilUpdate(w)
        \/ RefreshReviews(w)
        \/ RelistReviews(w)

SpecSession == InitSession /\ [][NextSession]_vars

----------------------------------------------------------------------------
(* Discovery next to a handler: one goroutine runs RelistReviews while     *)
(* another runs an RPC on one review, both within one second of the        *)
(* clock.  The store is empty or holds review 1 at the start.              *)

DiscoveryWorkers == { "d", "h" }

\* RelistReviews arrives for worker "d", an RPC on one review for "h"
DiscoveryCall(w) ==
    IF w = "d"
    THEN Begin(w, "RelistReviews",
               [ codeReviewId |-> 1, snoozeUntilTimestamp |-> 0, codeReviewIds |-> << >> ],
               NoHistory(0, << >>))
    ELSE Call(w)

InitDiscovery ==
    /\ InitHarness
    /\ InitWorkers(DiscoveryWorkers)
    /\ dbFails = FALSE
    /\ db \in { << >>, [ i \in { 1 } |-> SeedRecord(i) ] }

NextDiscovery ==
    \/ \E w \in DiscoveryWorkers :
        \/ DiscoveryCall(w)
        \/ DeleteReview(w)
        \/ MarkMustReview(w)
        \/ MarkVisited(w)
        \/ ReviewedDeleteOnMerge(w)
        \/ SnoozeUntilMentioned(w)
        \/ SnoozeUntilTime(w)
        \/ RefreshReview(w)
        \/ SnoozeUntilUpdate(w)
        \/ RelistReviews(w)

SpecDiscovery == InitDiscovery /\ [][NextDiscovery]_vars

----------------------------------------------------------------------------
(* Two discovery passes next to a command: two goroutines serve a          *)
(* RelistReviews RPC at the same time; the last search of each has         *)
(* returned PR 1, which the empty store does not know, and each is at the  *)
(* head of its inner loop.  A third goroutine runs DeleteReview or         *)
(* MarkVisited.                                                            *)

PassWorkers == { "p1", "p2" }

CommandWorkers == { "c" }

\* the locals of relistCodeReviews after its last search returned PR 1
FoundIssue == [ NoLocals EXCEPT !.issues = << 1 >> ]

\* a command on one review arrives for worker "c"
PassesCall(w) ==
    /\ pc[w] = "idle"
    /\ \E name \in { "DeleteReview", "MarkVisited" }, id \in SrvIds :
        Begin(w, name, [ codeReviewId |-> id, snoozeUntilTimestamp |-> 0,
                         codeReviewIds |-> << >> ], NoHistory(0, << >>))

\* the goroutines of passes are at the head of the inner loop of
\* relistCodeReviews with PR 1 found, the others are idle
InitAtIssue(passes, others) ==
    LET ws == passes \cup others
    IN /\ dbMutex = Nil
       /\ clock = StartTime
       /\ pc = [ w \in ws |-> IF w \in passes THEN "rl_issue" ELSE "idle" ]
       /\ op = [ w \in ws |-> IF w \in passes THEN "RelistReviews" ELSE "" ]
       /\ arg = [ w \in ws |-> [ codeReviewId |-> 0, snoozeUntilTimestamp |-> 0,
                                 codeReviewIds |-> << >> ] ]
       /\ codeReview = [ w \in ws |-> Nil ]
       /\ issue = [ w \in ws |-> Nil ]
       /\ codeReviews = [ w \in ws |-> Nil ]
       /\ ret = [ w \in ws |-> "" ]
       /\ interfered = [ w \in ws |-> FALSE ]
       /\ loc = [ w \in ws |-> IF w \in passes THEN FoundIssue ELSE NoLocals ]
       /\ hist = [ w \in ws |-> NoHistory(0, << >>) ]
       /\ prev = Nil

InitPasses ==
    /\ InitHarness
    /\ InitAtIssue(PassWorkers, CommandWorkers)
    /\ dbFails = FALSE
    /\ db = << >>

NextPasses ==
    \/ \E w \in PassWorkers : RelistReviews(w)
    \/ \E w \in CommandWorkers :
        \/ PassesCall(w)
        \/ DeleteReview(w)
        \/ MarkVisited(w)

SpecPasses == InitPasses /\ [][NextPasses]_vars

----------------------------------------------------------------------------
(* Contention for dbMutex: a discovery pass that has found PR 1 next to an *)
(* RPC on one review, with a store that is empty or holds one review and   *)
(* whose accesses may fail.  A goroutine                                   *)
(* that can take a step is scheduled, and sync.Mutex hands the lock to a   *)
(* waiting goroutine once it is free (weak fairness of the steps of each   *)
(* handler); whether an RPC arrives at all is left open.                   *)

LockingPasses == { "p" }

LockingHandlers == { "h" }

LockingWorkers == LockingPasses \cup LockingHandlers

InitLocking ==
    /\ InitHarness
    /\ InitAtIssue(LockingPasses, LockingHandlers)
    /\ dbFails \in BOOLEAN
    /\ db \in { << >> } \cup { [ i \in { j } |-> SeedRecord(i) ] : j \in SrvIds }

\* a step of the handler that serves the RPC of worker w
HandlerStep(w) ==
    \/ DeleteReview(w)
    \/ MarkMustReview(w)
    \/ MarkVisited(w)
    \/ ReviewedDeleteOnMerge(w)
    \/ SnoozeUntilMentioned(w)
    \/ SnoozeUntilTime(w)
    \/ RefreshReview(w)
    \/ SnoozeUntilUpdate(w)
    \/ RelistReviews(w)

NextLocking ==
    \/ \E w \in LockingHandlers : Call(w)
    \/ \E w \in LockingWorkers : HandlerStep(w)

SpecLocking ==
    /\ InitLocking
    /\ [][NextLocking]_vars
    /\ \A w \in LockingWorkers : WF_vars(HandlerStep(w))

----------------------------------------------------------------------------
(* The reconcile harness: one call on inputs drawn from the sets above,    *)
(* then a call with the same remote and the same now on the record the     *)
(* first call returned (a refresh that follows a refresh).                 *)

InitReconcile ==
    /\ InitHarness
    /\ InitWorkers({ })
    /\ dbFails = FALSE
    /\ db = << >>

Reconcile ==
    /\ IsNil(rcOut)
    /\ \E r \in Remotes(rcNow),
          e \in { Nil } \cup { Some(x) : x \in ExistingRecords(rcNow) } :
        /\ rcRemote' = r
        /\ rcExisting' = e
        /\ rcOut' = Some(convertGitHubToWorkboardCodeReview(
                            r, e, gitHubMentionTriggers, rcNow))
    /\ UNCHANGED << rcNow, rcOut2, srvVars >>

ReconcileAgain ==
    /\ ~IsNil(rcOut)
    /\ IsNil(rcOut2)
    /\ rcOut2' = Some(convertGitHubToWorkboardCodeReview(
                         rcRemote, rcOut, gitHubMentionTriggers, rcNow))
    /\ UNCHANGED << rcRemote, rcExisting, rcNow, rcOut, srvVars >>

NextReconcile == Reconcile \/ ReconcileAgain

SpecReconcile == InitReconcile /\ [][NextReconcile]_vars

----------------------------------------------------------------------------
(* Repeated refresh: after the two calls of the harness, every further     *)
(* call is made with the same remote and the same now on the record the    *)
(* call before it returned.  rcOut and rcOut2 hold the results of the last *)
(* two calls.  Once a record has been refreshed the periodic refresh keeps *)
(* refreshing it (weak fairness of the repeated calls); whether a record   *)
(* is ever refreshed is left open.                                         *)

ReconcileOn ==
    /\ ~IsNil(rcOut2)
    /\ rcOut' = rcOut2
    /\ rcOut2' = Some(convertGitHubToWorkboardCodeReview(
                         rcRemote, rcOut2, gitHubMentionTriggers, rcNow))
    /\ UNCHANGED << rcRemote, rcExisting, rcNow, srvVars >>

NextRefreshes == Reconcile \/ ReconcileAgain \/ ReconcileOn

SpecRefreshes ==
    /\ InitReconcile
    /\ [][NextRefreshes]_vars
    /\ WF_vars(ReconcileAgain)
    /\ WF_vars(ReconcileOn)

----------------------------------------------------------------------------
(* Claims *)

\* the store writes of the handlers
WriteLabels == { "store_set", "rf_store_set", "su_store_set" }

\* C1 (as claimed): whenever a handler is about to write a record to the
\* store, no other handler has written the store since the read of the
\* record that this write is based on: read and write lie in one holding of
\* dbMutex.
C1_ReadAndWriteInOneLockHolding ==
    \A w \in DOMAIN pc : pc[w] \in WriteLabels => ~interfered[w]

\* C2 (as claimed): when a DeleteReview and a RefreshReview of the same id
\* have both returned success, and the refresh saw the PR open, the
\* repository not archived and no mention, the stored record is DELETED.
C2_DeleteSurvivesConcurrentRefresh ==
    \A d \in DOMAIN pc, r \in DOMAIN pc :
        ( /\ op[d] = "DeleteReview" /\ ret[d] = "ok"
          /\ op[r] = "RefreshReview" /\ ret[r] = "ok"
          /\ arg[d].codeReviewId = arg[r].codeReviewId
          /\ Val(issue[r]).state = "open"
          /\ ~Val(issue[r]).archived
          /\ Val(issue[r]).comments = << >> )
        => db[arg[d].codeReviewId].status = STATUS_DELETED

\* C3: when the N concurrent MarkMustReview calls on N distinct stored ids
\* have all returned, each returned success and the store holds all N
\* records, each with status MUST_REVIEW.
C3_ConcurrentMarksAllStored ==
    (\A w \in DOMAIN pc : pc[w] = "done")
    => /\ DOMAIN db = 1..NumMarkers
       /\ \A w \in DOMAIN pc :
            /\ ret[w] = "ok"
            /\ db[arg[w].codeReviewId].status = STATUS_MUST_REVIEW

\* C3 witness: all N MarkMustReview calls have returned
C3_AllMarksReturned ==
    /\ Cardinality(DOMAIN pc) = NumMarkers
    /\ \A w \in DOMAIN pc : pc[w] = "done" /\ op[w] = "MarkMustReview"

\* the first call of the harness was made on an existing record
RcCalledOnExisting == ~IsNil(rcOut) /\ ~IsNil(rcExisting)

\* a fetched comment contains a configured trigger and is newer than lastMention
HasNewerMention(remote, existing) ==
    \E i \in 1..Len(remote.comments) :
        /\ \E t \in gitHubMentionTriggers : Contains(remote.comments[i].body, t)
        /\ CommentTime(remote.comments[i]) > existing.lastMention

\* C4 (as claimed): for an existing record, a second reconcile call with the
\* same remote and the same now on the result of the first yields the same status and the same
\* three snooze-scoped fields as the first.
C4_ReconcileIdempotent ==
    (RcCalledOnExisting /\ ~IsNil(rcOut2))
    => /\ Val(rcOut2).status = Val(rcOut).status
       /\ Val(rcOut2).snoozeUntilTimestamp = Val(rcOut).snoozeUntilTimestamp
       /\ Val(rcOut2).snoozeUntilUpdatedAtChangedFrom =
            Val(rcOut).snoozeUntilUpdatedAtChangedFrom
       /\ Val(rcOut2).bringBackToReviewIfNotMergedUntilTimestamp =
            Val(rcOut).bringBackToReviewIfNotMergedUntilTimestamp

\* C5 (as claimed): reconcile of a DELETED record with a repository that is
\* not archived and a comment that contains a trigger and is newer than the
\* record's lastMention yields status MENTIONED.
C5_MentionResurrectsDeleted ==
    ( /\ RcCalledOnExisting
      /\ Val(rcExisting).status = STATUS_DELETED
      /\ ~rcRemote.archived
      /\ HasNewerMention(rcRemote, Val(rcExisting)) )
    => Val(rcOut).status = STATUS_MENTIONED

\* C6 (as claimed): whenever a reconcile call records a mention newer than
\* the existing lastMention (the output lastMention is greater), the output
\* status of that call is MENTIONED.
C6_FreshMentionNeverBuried ==
    ( /\ RcCalledOnExisting
      /\ Val(rcOut).lastMention > Val(rcExisting).lastMention )
    => Val(rcOut).status = STATUS_MENTIONED

\* C7 (as claimed): reconcile of a REVIEWED_DELETE_ON_MERGE record with a
\* merged remote yields status DELETED and deleteAfter = now + 2592000.
C7_MergeWhileReviewed ==
    ( /\ RcCalledOnExisting
      /\ Val(rcExisting).status = STATUS_REVIEWED_DELETE_ON_MERGE
      /\ GitHubPullRequestStatus(rcRemote) = GH_MERGED )
    => /\ Val(rcOut).status = STATUS_DELETED
       /\ Val(rcOut).deleteAfter = rcNow + 2592000

\* the existing record is snoozed until the second before now
SnoozeJustExpired ==
    /\ RcCalledOnExisting
    /\ Val(rcExisting).status = STATUS_SNOOZED_UNTIL_TIME
    /\ Val(rcExisting).snoozeUntilTimestamp = rcNow - 1

NotBefore(out, existing) ==
    /\ out.lastChanged >= existing.lastChanged
    /\ out.lastRefreshed >= existing.lastRefreshed
    /\ out.lastMention >= existing.lastMention
    /\ out.lastVisited >= existing.lastVisited

\* C9 (as claimed): in every reconcile call with an existing record (the
\* first call of the harness and the call on its result), lastChanged,
\* lastRefreshed, lastMention and lastVisited of the output are >= those of
\* the existing record.
C9_MonotonicTimestamps ==
    /\ RcCalledOnExisting => NotBefore(Val(rcOut), Val(rcExisting))
    /\ ~IsNil(rcOut2) => NotBefore(Val(rcOut2), Val(rcOut))

\* C10: reconcile without an existing record yields status NEW and
\* lastChanged = the remote updatedAt.
C10_FirstSighting ==
    (~IsNil(rcOut) /\ IsNil(rcExisting))
    => /\ Val(rcOut).status = STATUS_NEW
       /\ Val(rcOut).lastChanged = rcRemote.updatedAt

\* C10 witness: a first sighting of a merged PR in an archived repository
\* with a mentioning comment
C10_FirstSightingOfMergedArchived ==
    /\ ~IsNil(rcOut)
    /\ IsNil(rcExisting)
    /\ GitHubPullRequestStatus(rcRemote) = GH_MERGED
    /\ rcRemote.archived
    /\ \E i \in 1..Len(rcRemote.comments) :
          \E t \in gitHubMentionTriggers : Contains(rcRemote.comments[i].body, t)

\* the RPC of worker w has returned
Done(w) == pc[w] = "done"

\* the time t lies within the call of worker w, seen from its return
DuringCall(w, t) == hist[w].calledAt <= t /\ t <= clock

\* C11: reconcile of a DELETED record with an archived repository and a
\* comment that contains a trigger and is newer than the record's
\* lastMention yields status DELETED.
C11_ArchivedSuppression ==
    ( /\ RcCalledOnExisting
      /\ Val(rcExisting).status = STATUS_DELETED
      /\ rcRemote.archived
      /\ HasNewerMention(rcRemote, Val(rcExisting)) )
    => Val(rcOut).status = STATUS_DELETED

\* C11 witness: a DELETED record, an archived repository and a newer mention
C11_DeletedArchivedMentioned ==
    /\ RcCalledOnExisting
    /\ Val(rcExisting).status = STATUS_DELETED
    /\ rcRemote.archived
    /\ HasNewerMention(rcRemote, Val(rcExisting))
    /\ Val(rcOut).status = STATUS_DELETED

\* the first RPC of the session was a successful RelistReviews on an empty
\* store that left exactly the record id
DiscoveredAlone(id) ==
    /\ ~IsNil(prev)
    /\ Val(prev).op = "RelistReviews"
    /\ Val(prev).ret = "ok"
    /\ Val(prev).db0 = << >>
    /\ DOMAIN Val(prev).db = { id }

\* C12: (a) when RelistReviews has returned success on a store that was
\* empty and it fetched the details of exactly one PR, which was open, the
\* store holds exactly that record, with status NEW; (b) when after such a
\* discovery a RefreshReview of that id has returned success and saw the PR
\* merged, the repository not archived and no comments, the record has
\* status MERGED, its lastChanged is a time during the refresh, and it is
\* still the only record.
C12_DiscoverThenRefreshMerged ==
    \A w \in DOMAIN pc :
        /\ ( /\ Done(w) /\ op[w] = "RelistReviews" /\ ret[w] = "ok"
             /\ hist[w].db0 = << >>
             /\ Len(hist[w].fetched) = 1
             /\ hist[w].wrote[hist[w].fetched[1]].ghStatus = GH_OPEN )
           => /\ DOMAIN db = { hist[w].fetched[1] }
              /\ db[hist[w].fetched[1]].status = STATUS_NEW
        /\ ( /\ Done(w) /\ op[w] = "RefreshReview" /\ ret[w] = "ok"
             /\ DiscoveredAlone(arg[w].codeReviewId)
             /\ Val(issue[w]).merged
             /\ ~Val(issue[w]).archived
             /\ Val(issue[w]).comments = << >> )
           => /\ DOMAIN db = { arg[w].codeReviewId }
              /\ db[arg[w].codeReviewId].status = STATUS_MERGED
              /\ DuringCall(w, db[arg[w].codeReviewId].lastChanged)

\* C12 witness: the refresh after the discovery has returned and the record
\* that was NEW is MERGED
C12_DiscoveredThenMerged ==
    \E w \in DOMAIN pc :
        /\ Done(w) /\ op[w] = "RefreshReview" /\ ret[w] = "ok"
        /\ DiscoveredAlone(arg[w].codeReviewId)
        /\ Val(prev).db[arg[w].codeReviewId].status = STATUS_NEW
        /\ Val(issue[w]).merged
        /\ ~Val(issue[w]).archived
        /\ Val(issue[w]).comments = << >>
        /\ db[arg[w].codeReviewId].status = STATUS_MERGED

\* the number of elements of ids that had a record when the RPC arrived
NumKnown(w, ids) ==
    LET Known(id) == id \in DOMAIN hist[w].db0
    IN Len(SelectSeq(ids, Known))

\* C13 (as claimed): when RefreshReviews with a valid batch has returned,
\* a fetch was attempted for every element of the batch that has a record,
\* also for those after an element whose refresh failed.
C13_BatchAttemptsEveryId ==
    \A w \in DOMAIN pc :
        ( /\ Done(w) /\ op[w] = "RefreshReviews"
          /\ ~BatchInvalid(arg[w].codeReviewIds) )
        => Len(hist[w].fetched) >= NumKnown(w, arg[w].codeReviewIds)

\* C14 (as claimed): when RelistReviews has returned and the store read
\* that checks whether a found PR is known failed during it, the response
\* is not success.
C14_RelistReportsFailedCheck ==
    \A w \in DOMAIN pc :
        (Done(w) /\ op[w] = "RelistReviews" /\ hist[w].checkFailed)
        => ret[w] # "ok"

\* C15: when RelistReviews or RefreshReviews has returned an error, every
\* record the RPC wrote is in the store as written, and every other record
\* of the store is as it was when the RPC arrived.
C15_PartialProgressKept ==
    \A w \in DOMAIN pc :
        ( /\ Done(w) /\ op[w] \in { "RelistReviews", "RefreshReviews" }
          /\ ret[w] \notin { "ok", "invalid" } )
        => /\ DOMAIN db = DOMAIN hist[w].db0 \cup DOMAIN hist[w].wrote
           /\ \A id \in DOMAIN db :
                db[id] = IF id \in DOMAIN hist[w].wrote
                         THEN hist[w].wrote[id] ELSE hist[w].db0[id]

\* C15 witness: a discovery stored one record next to the one of the store
\* and then failed
C15_RelistFailedAfterStore ==
    \E w \in DOMAIN pc :
        /\ Done(w) /\ op[w] = "RelistReviews" /\ ret[w] = "err"
        /\ DOMAIN hist[w].db0 = { 1 }
        /\ DOMAIN hist[w].wrote = { 2 }

\* C16: when RefreshReviews has returned, then if its list was empty or
\* longer than 20 the response is the validation error, nothing was
\* fetched and the store is as it was; and if its list had 1 to 20 ids the
\* response is not the validation error.
C16_BatchConstraint ==
    \A w \in DOMAIN pc :
        (Done(w) /\ op[w] = "RefreshReviews")
        => IF Len(arg[w].codeReviewIds) = 0 \/ Len(arg[w].codeReviewIds) > 20
           THEN /\ ret[w] = "invalid"
                /\ hist[w].fetched = << >>
                /\ hist[w].wrote = << >>
                /\ db = hist[w].db0
           ELSE ret[w] # "invalid"

\* C16 witness: a list of 21 ids was rejected
C16_OversizedBatchRejected ==
    \E w \in DOMAIN pc :
        /\ Done(w) /\ op[w] = "RefreshReviews"
        /\ Len(arg[w].codeReviewIds) = 21
        /\ ret[w] = "invalid"

\* the RPCs that work on one review
SingleReviewRpcs ==
    { "DeleteReview", "MarkMustReview", "MarkVisited", "ReviewedDeleteOnMerge",
      "SnoozeUntilMentioned", "SnoozeUntilTime", "SnoozeUntilUpdate", "RefreshReview" }

\* C17: when one of the eight RPCs on one review has returned and its id
\* had no record when it arrived, the response is an error, the store is
\* as it was and nothing was fetched from the remote.
C17_NotFoundWithoutSideEffects ==
    \A w \in DOMAIN pc :
        ( /\ Done(w) /\ op[w] \in SingleReviewRpcs
          /\ arg[w].codeReviewId \notin DOMAIN hist[w].db0 )
        => /\ ret[w] \notin { "", "ok" }
           /\ db = hist[w].db0
           /\ hist[w].fetched = << >>
           /\ hist[w].wrote = << >>

\* C17 witness: SnoozeUntilUpdate of an unknown id was answered with "no
\* such code review"
C17_UnknownIdRejected ==
    \E w \in DOMAIN pc :
        /\ Done(w) /\ op[w] = "SnoozeUntilUpdate"
        /\ arg[w].codeReviewId \notin DOMAIN hist[w].db0
        /\ ret[w] = "no such code review"

\* C18: when SnoozeUntilTime has returned, with now the time its validation
\* read: a target <= now + 60 was answered with the validation error and
\* the store is as it was; a target > now + 60 for an id that had a record
\* was answered with success unless the database failed, and after success
\* the record has status SNOOZED_UNTIL_TIME and snoozeUntilTimestamp equal
\* to the target.
C18_SnoozeUntilTimeValidation ==
    \A w \in DOMAIN pc :
        (Done(w) /\ op[w] = "SnoozeUntilTime")
        => LET ts == arg[w].snoozeUntilTimestamp
               id == arg[w].codeReviewId
           IN IF ts <= hist[w].now + 60
              THEN /\ ret[w] = "invalid"
                   /\ db = hist[w].db0
                   /\ hist[w].wrote = << >>
              ELSE id \in DOMAIN hist[w].db0
                   => /\ ret[w] \in { "ok", "err" }
                      /\ ret[w] = "err" => dbFails
                      /\ ret[w] = "ok"
                         => /\ db[id].status = STATUS_SNOOZED_UNTIL_TIME
                            /\ db[id].snoozeUntilTimestamp = ts

\* C18 witness: a target 61 seconds after the time of the validation was
\* stored
C18_SnoozedUntilTime ==
    \E w \in DOMAIN pc :
        /\ Done(w) /\ op[w] = "SnoozeUntilTime" /\ ret[w] = "ok"
        /\ arg[w].snoozeUntilTimestamp = hist[w].now + 61
        /\ db[arg[w].codeReviewId].snoozeUntilTimestamp = hist[w].now + 61

\* the command handlers
StampingCommands ==
    { "SnoozeUntilTime", "SnoozeUntilMentioned", "SnoozeUntilUpdate",
      "MarkMustReview", "ReviewedDeleteOnMerge", "DeleteReview" }

\* C19 (as claimed): when one of the seven command handlers has returned
\* success, lastChanged of the stored record is a time during the call.
C19_EveryCommandStampsLastChanged ==
    \A w \in DOMAIN pc :
        ( /\ Done(w) /\ ret[w] = "ok"
          /\ op[w] \in StampingCommands \cup { "MarkVisited" } )
        => DuringCall(w, db[arg[w].codeReviewId].lastChanged)

\* C19 (amended): when SnoozeUntilTime, SnoozeUntilMentioned,
\* SnoozeUntilUpdate, MarkMustReview, ReviewedDeleteOnMerge or DeleteReview
\* has returned success, lastChanged of the stored record is a time during
\* the call; when MarkVisited has returned success, lastVisited is a time
\* during the call and lastChanged is what it was before the call.
C19_CommandsStampLastChanged ==
    \A w \in DOMAIN pc :
        (Done(w) /\ ret[w] = "ok")
        => LET id == arg[w].codeReviewId
           IN /\ op[w] \in StampingCommands => DuringCall(w, db[id].lastChanged)
              /\ op[w] = "MarkVisited"
                 => /\ DuringCall(w, db[id].lastVisited)
                    /\ db[id].lastChanged = hist[w].db0[id].lastChanged

\* C19 witness: MarkMustReview returned success a second after it arrived
\* and the record carries one of the two times
C19_MarkedAcrossATick ==
    \E w \in DOMAIN pc :
        /\ Done(w) /\ ret[w] = "ok" /\ op[w] = "MarkMustReview"
        /\ hist[w].calledAt < clock
        /\ DuringCall(w, db[arg[w].codeReviewId].lastChanged)

\* C20: (a) when SnoozeUntilUpdate has returned success, the stored
\* snoozeUntilUpdatedAtChangedFrom is the updatedAt the call fetched and
\* the status is SNOOZED_UNTIL_UPDATE; (b) when the RefreshReview of the
\* same id that follows it has returned success and saw the updatedAt of
\* that baseline, the PR open, the repository not archived and no mention
\* newer than the record's lastMention, the status is still
\* SNOOZED_UNTIL_UPDATE.
C20_SnoozeUntilUpdateBaseline ==
    \A w \in DOMAIN pc :
        /\ (Done(w) /\ op[w] = "SnoozeUntilUpdate" /\ ret[w] = "ok")
           => /\ db[arg[w].codeReviewId].snoozeUntilUpdatedAtChangedFrom =
                    Val(issue[w]).updatedAt
              /\ db[arg[w].codeReviewId].status = STATUS_SNOOZED_UNTIL_UPDATE
        /\ ( /\ Done(w) /\ op[w] = "RefreshReview" /\ ret[w] = "ok"
             /\ ~IsNil(prev)
             /\ Val(prev).op = "SnoozeUntilUpdate" /\ Val(prev).ret = "ok"
             /\ Val(prev).arg.codeReviewId = arg[w].codeReviewId
             /\ Val(issue[w]).updatedAt =
                  Val(prev).db[arg[w].codeReviewId].snoozeUntilUpdatedAtChangedFrom
             /\ Val(issue[w]).state = "open"
             /\ ~Val(issue[w]).archived
             /\ ~HasNewerMention(Val(issue[w]), Val(prev).db[arg[w].codeReviewId]) )
           => db[arg[w].codeReviewId].status = STATUS_SNOOZED_UNTIL_UPDATE

\* C20 witness: the record held an older updatedAt before SnoozeUntilUpdate,
\* and the refresh that followed saw the updatedAt of the baseline
C20_StillSnoozedAfterRefresh ==
    \E w \in DOMAIN pc :
        /\ Done(w) /\ op[w] = "RefreshReview" /\ ret[w] = "ok"
        /\ ~IsNil(prev)
        /\ Val(prev).op = "SnoozeUntilUpdate" /\ Val(prev).ret = "ok"
        /\ Val(prev).arg.codeReviewId = arg[w].codeReviewId
        /\ Val(prev).db0[arg[w].codeReviewId].updatedAtTimestamp
             < Val(prev).db[arg[w].codeReviewId].snoozeUntilUpdatedAtChangedFrom
        /\ Val(issue[w]).updatedAt =
             Val(prev).db[arg[w].codeReviewId].snoozeUntilUpdatedAtChangedFrom
        /\ db[arg[w].codeReviewId].status = STATUS_SNOOZED_UNTIL_UPDATE

\* C21: when DeleteReview has returned success, the store holds the ids it
\* held before the call, the record of the id has status DELETED, and its
\* deleteAfter is 2592000 seconds after a time during the call.
C21_DeleteKeepsRecord ==
    \A w \in DOMAIN pc :
        (Done(w) /\ op[w] = "DeleteReview" /\ ret[w] = "ok")
        => LET id == arg[w].codeReviewId
           IN /\ DOMAIN db = DOMAIN hist[w].db0
              /\ id \in DOMAIN db
              /\ db[id].status = STATUS_DELETED
              /\ DuringCall(w, db[id].deleteAfter - 2592000)

\* C21 witness: DeleteReview returned success a second after it arrived and
\* the record is in the store with status DELETED
C21_DeletedAcrossATick ==
    \E w \in DOMAIN pc :
        /\ Done(w) /\ op[w] = "DeleteReview" /\ ret[w] = "ok"
        /\ hist[w].calledAt < clock
        /\ arg[w].codeReviewId \in DOMAIN db
        /\ db[arg[w].codeReviewId].status = STATUS_DELETED

\* C22: no step of RelistReviews or of an RPC on one review, in any
\* interleaving of the two goroutines, takes an id out of the stored map.
C22_NoIdIsRemoved == [][DOMAIN db \subseteq DOMAIN db']_vars

\* C22 witness: RelistReviews stored two reviews into the empty store, and
\* the DeleteReview that ran next to it has written one of them
C22_DeletedNextToDiscovery ==
    /\ Done("d") /\ ret["d"] = "ok"
    /\ DOMAIN hist["d"].wrote = { 1, 2 }
    /\ Done("h") /\ ret["h"] = "ok" /\ op["h"] = "DeleteReview"
    /\ DOMAIN db = { 1, 2 }

\* C23: at every step of a RelistReviews that runs alone, no id has been
\* given to the detail fetch twice, no id that had a record when the pass
\* began has been given to it, and every record the store held when the
\* pass began is in the store unchanged.
C23_DiscoveryDeduplicates ==
    \A w \in DOMAIN pc :
        op[w] = "RelistReviews"
        => LET fetched == hist[w].fetched
               before == hist[w].db0
           IN /\ \A i, j \in 1..Len(fetched) : fetched[i] = fetched[j] => i = j
              /\ \A i \in 1..Len(fetched) : fetched[i] \notin DOMAIN before
              /\ \A id \in DOMAIN before : id \in DOMAIN db /\ db[id] = before[id]

\* C23 witness: review 1 was in the store and has been skipped, review 2
\* has been fetched once, and a later search returned review 2 again
C23_FoundAgainByLaterSearch ==
    \E w \in DOMAIN pc :
        /\ op[w] = "RelistReviews" /\ pc[w] = "rl_issue"
        /\ DOMAIN hist[w].db0 = { 1 }
        /\ loc[w].seen = { 1, 2 }
        /\ hist[w].fetched = << 2 >>
        /\ 2 \in DOMAIN db
        /\ loc[w].issues # << >> /\ Head(loc[w].issues) = 2

\* C24: (a) when ReviewedDeleteOnMerge has returned success, the status is
\* REVIEWED_DELETE_ON_MERGE and the stored bring-back deadline is 14400
\* seconds after a time during the call; (b) when the RefreshReview of the
\* same id that follows it has returned success before that deadline and
\* saw the PR open, the repository not archived and no mention newer than
\* the record's lastMention, the status is still REVIEWED_DELETE_ON_MERGE
\* and the deadline is unchanged.
C24_ReviewGraceWindow ==
    \A w \in DOMAIN pc :
        LET id == arg[w].codeReviewId
        IN /\ (Done(w) /\ op[w] = "ReviewedDeleteOnMerge" /\ ret[w] = "ok")
              => /\ db[id].status = STATUS_REVIEWED_DELETE_ON_MERGE
                 /\ DuringCall(w, db[id].bringBackToReviewIfNotMergedUntilTimestamp - 14400)
           /\ ( /\ Done(w) /\ op[w] = "RefreshReview" /\ ret[w] = "ok"
                /\ ~IsNil(prev)
                /\ Val(prev).op = "ReviewedDeleteOnMerge" /\ Val(prev).ret = "ok"
                /\ Val(prev).arg.codeReviewId = id
                /\ clock < Val(prev).db[id].bringBackToReviewIfNotMergedUntilTimestamp
                /\ Val(issue[w]).state = "open"
                /\ ~Val(issue[w]).archived
                /\ ~HasNewerMention(Val(issue[w]), Val(prev).db[id]) )
              => /\ db[id].status = STATUS_REVIEWED_DELETE_ON_MERGE
                 /\ db[id].bringBackToReviewIfNotMergedUntilTimestamp =
                      Val(prev).db[id].bringBackToReviewIfNotMergedUntilTimestamp

\* C24 witness: the review was marked, then refreshed in the last second
\* before the deadline with the PR open, and is still
\* REVIEWED_DELETE_ON_MERGE
C24_StillReviewedAfterRefresh ==
    \E w \in DOMAIN pc :
        /\ Done(w) /\ op[w] = "RefreshReview" /\ ret[w] = "ok"
        /\ ~IsNil(prev)
        /\ Val(prev).op = "ReviewedDeleteOnMerge" /\ Val(prev).ret = "ok"
        /\ Val(prev).arg.codeReviewId = arg[w].codeReviewId
        /\ Val(issue[w]).state = "open"
        /\ db[arg[w].codeReviewId].lastRefreshed
             = Val(prev).db[arg[w].codeReviewId].lastChanged + 14400 - 1
        /\ db[arg[w].codeReviewId].status = STATUS_REVIEWED_DELETE_ON_MERGE

\* the steps that are a remote call: a search, client.Issues.Get and the
\* GraphQL query of the details
RemoteLabels == { "rl_search", "rf_fetch", "rl_fetch" }

\* C25: a goroutine whose next step is a remote call does not hold
\* dbMutex, and a command handler that waits for the mutex meanwhile can
\* take it unless a third goroutine holds it.
C25_RemoteCallsOutsideLock ==
    \A w \in DOMAIN pc :
        pc[w] \in RemoteLabels
        => /\ dbMutex # Some(w)
           /\ \A h \in DOMAIN pc \ { w } :
                (pc[h] = "lock" /\ \A v \in DOMAIN pc \ { w } : dbMutex # Some(v))
                => ENABLED Lock(h, "lock", "get")

\* C25 witness: the detail fetch of RelistReviews is in flight while a
\* command handler holds the mutex and has written its record
C25_CommandDuringFetch ==
    /\ pc["d"] = "rl_fetch"
    /\ pc["h"] = "unlock"
    /\ op["h"] \in CommandNames
    /\ dbMutex = Some("h")

\* lastMentionedAt of the first call of the harness, after the stale drop
RcLastMentionedAt ==
    DropStaleMention(ScanMentions(rcRemote.comments, gitHubMentionTriggers, 1, Nil),
                     GitHubPullRequestStatus(rcRemote), rcNow)

\* the condition of the mention rule holds in the first call of the harness
RcFreshMention ==
    MentionFires(Val(rcExisting), RcLastMentionedAt, rcRemote.archived)

\* C26: reconcile of a DELETED record without a fresh mention yields status
\* DELETED, whatever the remote state, archived flag and updatedAt, and
\* leaves lastChanged and the three snooze-scoped fields as they were.
C26_DeletedStaysDeleted ==
    ( /\ RcCalledOnExisting
      /\ Val(rcExisting).status = STATUS_DELETED
      /\ ~RcFreshMention )
    => /\ Val(rcOut).status = STATUS_DELETED
       /\ Val(rcOut).lastChanged = Val(rcExisting).lastChanged
       /\ Val(rcOut).snoozeUntilTimestamp = Val(rcExisting).snoozeUntilTimestamp
       /\ Val(rcOut).snoozeUntilUpdatedAtChangedFrom =
            Val(rcExisting).snoozeUntilUpdatedAtChangedFrom
       /\ Val(rcOut).bringBackToReviewIfNotMergedUntilTimestamp =
            Val(rcExisting).bringBackToReviewIfNotMergedUntilTimestamp

\* C26 witness: a DELETED record without a retention deadline, the PR
\* merged, the repository archived
C26_DeletedMergedArchived ==
    /\ RcCalledOnExisting
    /\ Val(rcExisting).status = STATUS_DELETED
    /\ Val(rcExisting).deleteAfter = 0
    /\ ~RcFreshMention
    /\ GitHubPullRequestStatus(rcRemote) = GH_MERGED
    /\ rcRemote.archived
    /\ Val(rcOut).status = STATUS_DELETED

\* the primary rules whose condition holds in the first call of the
\* harness; none is looked at after the early return for a DELETED record
RcPrimaryRulesFiring ==
    LET existing == Val(rcExisting)
        gh == GitHubPullRequestStatus(rcRemote)
    IN IF DeletedReturnsEarly(existing) THEN { }
       ELSE { r \in { "merge", "review-window", "close", "time-unsnooze",
                      "update-unsnooze", "archival" } :
                CASE r = "merge" -> MergeFires(existing, gh)
                  [] r = "review-window" -> ReviewWindowFires(existing, rcNow)
                  [] r = "close" -> CloseFires(existing, gh)
                  [] r = "time-unsnooze" -> TimeUnsnoozeFires(existing, rcNow)
                  [] r = "update-unsnooze" ->
                        UpdateUnsnoozeFires(existing, rcRemote.updatedAt)
                  [] r = "archival" -> ArchiveFires(existing, rcRemote.archived) }

\* C27 (as claimed): in a reconcile call on an existing record at most one
\* of the rules merge detection, review-window expiry, close detection,
\* time-based unsnooze, update-based unsnooze and archival fires.
C27_AtMostOnePrimaryTransition ==
    RcCalledOnExisting => Cardinality(RcPrimaryRulesFiring) <= 1

\* the existing record of the harness is MERGED and the remote merged, or
\* it is CLOSED and the remote closed
RcFinished ==
    \/ /\ Val(rcExisting).status = STATUS_MERGED
       /\ GitHubPullRequestStatus(rcRemote) = GH_MERGED
    \/ /\ Val(rcExisting).status = STATUS_CLOSED
       /\ GitHubPullRequestStatus(rcRemote) = GH_CLOSED

\* C28: reconcile of a MERGED record with the remote merged, or of a CLOSED
\* record with the remote closed, with a repository that is not archived
\* and a mention that is not dropped as stale and is newer than the
\* record's lastMention, yields status MENTIONED, lastMention = the time of
\* the mentioning comment and deleteAfter 0.
C28_MentionResurrectsFinished ==
    ( /\ RcCalledOnExisting
      /\ RcFinished
      /\ ~rcRemote.archived
      /\ ~IsNil(RcLastMentionedAt)
      /\ Val(RcLastMentionedAt) > Val(rcExisting).lastMention )
    => /\ Val(rcOut).status = STATUS_MENTIONED
       /\ Val(rcOut).deleteAfter = 0
       /\ Val(rcOut).lastMention > Val(rcExisting).lastMention
       /\ \E i \in 1..Len(rcRemote.comments) :
            /\ \E t \in gitHubMentionTriggers : Contains(rcRemote.comments[i].body, t)
            /\ CommentTime(rcRemote.comments[i]) = Val(rcOut).lastMention

\* C28 witness: a CLOSED record that carried a retention deadline and an
\* older mention, the PR closed, and a comment with a trigger edited now
C28_ClosedPrMentioned ==
    /\ RcCalledOnExisting
    /\ Val(rcExisting).status = STATUS_CLOSED
    /\ Val(rcExisting).deleteAfter # 0
    /\ Val(rcExisting).lastMention # 0
    /\ GitHubPullRequestStatus(rcRemote) = GH_CLOSED
    /\ ~rcRemote.archived
    /\ Val(rcOut).status = STATUS_MENTIONED
    /\ Val(rcOut).lastMention = rcNow

\* the existing record of the harness is snoozed until an update and the
\* remote updatedAt is not the stored baseline
RcUpdatedSinceSnooze ==
    /\ RcCalledOnExisting
    /\ Val(rcExisting).status = STATUS_SNOOZED_UNTIL_UPDATE
    /\ rcRemote.updatedAt # Val(rcExisting).snoozeUntilUpdatedAtChangedFrom

C30_SnoozeNotLiftedEarly ==
    ( /\ RcCalledOnExisting
      /\ Val(rcExisting).status = STATUS_SNOOZED_UNTIL_TIME
      /\ Val(rcExisting).snoozeUntilTimestamp > rcNow
      /\ GitHubPullRequestStatus(rcRemote) = GH_OPEN
      /\ ~rcRemote.archived
      /\ ~RcFreshMention )
    => /\ Val(rcOut).status = STATUS_SNOOZED_UNTIL_TIME
       /\ Val(rcOut).snoozeUntilTimestamp = Val(rcExisting).snoozeUntilTimestamp
       /\ Val(rcOut).lastChanged = Val(rcExisting).lastChanged

\* C30 witness: the snooze ends in the next second, the open PR was updated
\* a second ago and has a comment with a trigger that is not newer than
\* the record's lastMention
C30_SnoozedUntilNextSecond ==
    /\ RcCalledOnExisting
    /\ Val(rcExisting).status = STATUS_SNOOZED_UNTIL_TIME
    /\ Val(rcExisting).snoozeUntilTimestamp = rcNow + 1
    /\ GitHubPullRequestStatus(rcRemote) = GH_OPEN
    /\ ~rcRemote.archived
    /\ rcRemote.updatedAt = rcNow - 1
    /\ ~IsNil(RcLastMentionedAt)
    /\ ~RcFreshMention
    /\ Val(rcOut).status = STATUS_SNOOZED_UNTIL_TIME

\* the existing record of the harness is REVIEWED_DELETE_ON_MERGE and its
\* bring-back deadline is not after now
RcReviewWindowExpired ==
    /\ RcCalledOnExisting
    /\ Val(rcExisting).status = STATUS_REVIEWED_DELETE_ON_MERGE
    /\ Val(rcExisting).bringBackToReviewIfNotMergedUntilTimestamp <= rcNow

C32_ArchivalWins ==
    ( /\ RcCalledOnExisting
      /\ rcRemote.archived
      /\ Val(rcExisting).status \notin { STATUS_ARCHIVED, STATUS_DELETED } )
    => /\ Val(rcOut).status = STATUS_ARCHIVED
       /\ Val(rcOut).lastChanged = rcNow

\* C32 witness: a time snooze that has expired, the PR merged, the
\* repository archived
C32_ArchivedOverUnsnoozeAndMerge ==
    /\ RcCalledOnExisting
    /\ rcRemote.archived
    /\ Val(rcExisting).status = STATUS_SNOOZED_UNTIL_TIME
    /\ Val(rcExisting).snoozeUntilTimestamp = rcNow - 1
    /\ GitHubPullRequestStatus(rcRemote) = GH_MERGED
    /\ Cardinality(RcPrimaryRulesFiring) = 3
    /\ Val(rcOut).status = STATUS_ARCHIVED

\* C33: reconcile of a MENTIONED record with a repository that is not
\* archived and without a fresh mention yields status MENTIONED and leaves
\* lastChanged as it was, also when the PR is merged or closed.
C33_MentionedIsKept ==
    ( /\ RcCalledOnExisting
      /\ Val(rcExisting).status = STATUS_MENTIONED
      /\ ~rcRemote.archived
      /\ ~RcFreshMention )
    => /\ Val(rcOut).status = STATUS_MENTIONED
       /\ Val(rcOut).lastChanged = Val(rcExisting).lastChanged

\* C33 witness: a MENTIONED record whose PR was closed without a merge
C33_MentionedOnClosedPr ==
    /\ RcCalledOnExisting
    /\ Val(rcExisting).status = STATUS_MENTIONED
    /\ ~rcRemote.archived
    /\ ~RcFreshMention
    /\ GitHubPullRequestStatus(rcRemote) = GH_CLOSED
    /\ Val(rcOut).status = STATUS_MENTIONED

\* the times of the comments of the harness remote that contain a trigger
RcMentionTimes ==
    { CommentTime(rcRemote.comments[i]) :
        i \in { j \in 1..Len(rcRemote.comments) :
                  \E t \in gitHubMentionTriggers :
                      Contains(rcRemote.comments[j].body, t) } }

\* the most recent comment with a trigger is more than 1209600 seconds old
RcLatestMentionIsOld ==
    /\ RcMentionTimes # { }
    /\ \A t \in RcMentionTimes : rcNow - t > 1209600

\* C34: in a reconcile call on an existing record whose most recent
\* comment with a trigger is more than 1209600 seconds older than now,
\* (a) when the PR is closed or merged the output lastMention is the
\* existing lastMention and the status is MENTIONED only if it was before;
\* (b) when the PR is open, the repository not archived, the record not
\* DELETED and that comment newer than the existing lastMention, the output
\* lastMention is the time of that comment.
C34_StaleMentionsDiscarded ==
    (RcCalledOnExisting /\ RcLatestMentionIsOld)
    => /\ GitHubPullRequestStatus(rcRemote) # GH_OPEN
          => /\ Val(rcOut).lastMention = Val(rcExisting).lastMention
             /\ Val(rcOut).status = STATUS_MENTIONED
                => Val(rcExisting).status = STATUS_MENTIONED
       /\ ( /\ GitHubPullRequestStatus(rcRemote) = GH_OPEN
            /\ ~rcRemote.archived
            /\ Val(rcExisting).status # STATUS_DELETED
            /\ \A t \in RcMentionTimes : t > Val(rcExisting).lastMention )
          => Val(rcOut).lastMention \in RcMentionTimes

\* C34 witness: a mention a second older than 14 days on a closed PR, on a
\* record that has no mention yet
C34_OldMentionOnClosedPr ==
    /\ RcCalledOnExisting
    /\ RcMentionTimes = { rcNow - 1209601 }
    /\ GitHubPullRequestStatus(rcRemote) = GH_CLOSED
    /\ ~rcRemote.archived
    /\ Val(rcExisting).lastMention = 0
    /\ Val(rcExisting).status = STATUS_NEW
    /\ Val(rcOut).lastMention = 0

\* a rule fires in the reconcile call on existing: the record is not
\* returned early and the condition of the mention rule or of a primary
\* rule holds
SomeRuleFires(existing, remote, now) ==
    LET gh == GitHubPullRequestStatus(remote)
        lastMentionedAt ==
            DropStaleMention(ScanMentions(remote.comments, gitHubMentionTriggers, 1, Nil),
                             gh, now)
    IN /\ ~DeletedReturnsEarly(existing)
       /\ \/ MentionFires(existing, lastMentionedAt, remote.archived)
          \/ MergeFires(existing, gh)
          \/ ReviewWindowFires(existing, now)
          \/ CloseFires(existing, gh)
          \/ TimeUnsnoozeFires(existing, now)
          \/ UpdateUnsnoozeFires(existing, remote.updatedAt)
          \/ ArchiveFires(existing, remote.archived)

\* out carries the workflow state of existing
SameWorkflowState(out, existing) ==
    /\ out.status = existing.status
    /\ out.lastChanged = existing.lastChanged
    /\ out.lastMention = existing.lastMention
    /\ out.lastVisited = existing.lastVisited
    /\ out.snoozeUntilTimestamp = existing.snoozeUntilTimestamp
    /\ out.snoozeUntilUpdatedAtChangedFrom = existing.snoozeUntilUpdatedAtChangedFrom
    /\ out.bringBackToReviewIfNotMergedUntilTimestamp =
         existing.bringBackToReviewIfNotMergedUntilTimestamp

\* C35 (as claimed): in every reconcile call on an existing record (the
\* first call of the harness and the call on its result), the output
\* carries the workflow state of the existing record when no rule fires,
\* and lastChanged = now exactly when a rule fires.
C35_FrameAsClaimed ==
    /\ RcCalledOnExisting
       => /\ ~SomeRuleFires(Val(rcExisting), rcRemote, rcNow)
             => SameWorkflowState(Val(rcOut), Val(rcExisting))
          /\ Val(rcOut).lastChanged = rcNow
             <=> SomeRuleFires(Val(rcExisting), rcRemote, rcNow)
    /\ ~IsNil(rcOut2)
       => /\ ~SomeRuleFires(Val(rcOut), rcRemote, rcNow)
             => SameWorkflowState(Val(rcOut2), Val(rcOut))
          /\ Val(rcOut2).lastChanged = rcNow
             <=> SomeRuleFires(Val(rcOut), rcRemote, rcNow)

\* C35 (amended): in every reconcile call on an existing record, the output
\* carries the workflow state of the existing record when no rule fires,
\* and lastChanged = now when a rule fires.
C35_Frame ==
    /\ RcCalledOnExisting
       => /\ ~SomeRuleFires(Val(rcExisting), rcRemote, rcNow)
             => SameWorkflowState(Val(rcOut), Val(rcExisting))
          /\ SomeRuleFires(Val(rcExisting), rcRemote, rcNow)
             => Val(rcOut).lastChanged = rcNow
    /\ ~IsNil(rcOut2)
       => /\ ~SomeRuleFires(Val(rcOut), rcRemote, rcNow)
             => SameWorkflowState(Val(rcOut2), Val(rcOut))
          /\ SomeRuleFires(Val(rcOut), rcRemote, rcNow)
             => Val(rcOut2).lastChanged = rcNow

\* C35 witness: a rule fired in the first call, and in the call on its
\* result within the same second no rule fires and lastChanged is now
C35_QuietCallInTheSameSecond ==
    /\ RcCalledOnExisting
    /\ ~IsNil(rcOut2)
    /\ SomeRuleFires(Val(rcExisting), rcRemote, rcNow)
    /\ ~SomeRuleFires(Val(rcOut), rcRemote, rcNow)
    /\ Val(rcOut2).lastChanged = rcNow
    /\ SameWorkflowState(Val(rcOut2), Val(rcOut))

\* C36 (as claimed): in every sequence of refreshes with a constant remote
\* and a constant now, from some refresh on every refresh returns the
\* status and the lastChanged of the refresh before it (a record that is
\* never refreshed has nothing to converge).
C36_RefreshesConverge ==
    <>[]( \/ IsNil(rcOut)
          \/ /\ ~IsNil(rcOut2)
             /\ Val(rcOut2).status = Val(rcOut).status
             /\ Val(rcOut2).lastChanged = Val(rcOut).lastChanged )

\* C39 (as claimed): a reconcile call on a DELETED record with a deleteAfter
\* above 0 that returns DELETED returns the same deleteAfter, and a
\* reconcile call returns a deleteAfter other than the existing one only
\* when the merge rule fired on a REVIEWED_DELETE_ON_MERGE record or the
\* mention rule fired.
C39_DeleteAfterIsKept ==
    RcCalledOnExisting =>
        LET existing == Val(rcExisting)
            out == Val(rcOut)
            gh == GitHubPullRequestStatus(rcRemote)
        IN /\ ( /\ existing.status = STATUS_DELETED
                /\ existing.deleteAfter > 0
                /\ out.status = STATUS_DELETED )
              => out.deleteAfter = existing.deleteAfter
           /\ out.deleteAfter # existing.deleteAfter
              => /\ ~DeletedReturnsEarly(existing)
                 /\ \/ /\ MergeFires(existing, gh)
                       /\ existing.status = STATUS_REVIEWED_DELETE_ON_MERGE
                    \/ MentionFires(existing, RcLastMentionedAt, rcRemote.archived)

\* C37 (as claimed): when SnoozeUntilUpdate is about to make its final
\* write and a DeleteReview or MarkVisited of the same id has returned
\* success, the record it writes carries the lastVisited and the deleteAfter
\* that the store holds for that id at that moment.
C37_SnoozeKeepsCommittedCommand ==
    \A s \in DOMAIN pc, c \in DOMAIN pc :
        ( /\ s # c
          /\ op[s] = "SnoozeUntilUpdate" /\ pc[s] = "su_store_set"
          /\ op[c] \in { "DeleteReview", "MarkVisited" }
          /\ Done(c) /\ ret[c] = "ok"
          /\ arg[c].codeReviewId = arg[s].codeReviewId
          /\ arg[s].codeReviewId \in DOMAIN db )
        => /\ Val(codeReview[s]).lastVisited = db[arg[s].codeReviewId].lastVisited
           /\ Val(codeReview[s]).deleteAfter = db[arg[s].codeReviewId].deleteAfter

\* C38 (as claimed): when a discovery pass is about to write a record to
\* the store, the store holds no record under that id; and when a
\* MarkVisited has returned success and every discovery pass has finished,
\* the stored record carries a lastVisited that is not before the start.
C38_DiscoveryOnlyInserts ==
    /\ \A w \in DOMAIN pc :
        ( op[w] = "RelistReviews" /\ pc[w] = "rl_store_set" )
        => Val(codeReview[w]).id \notin DOMAIN db
    /\ \A c \in DOMAIN pc :
        ( /\ op[c] = "MarkVisited" /\ Done(c) /\ ret[c] = "ok"
          /\ \A w \in DOMAIN pc : op[w] = "RelistReviews" => Done(w) )
        => /\ arg[c].codeReviewId \in DOMAIN db
           /\ db[arg[c].codeReviewId].lastVisited >= StartTime

\* the places where a handler calls s.dbMutex.Lock()
LockLabels == { "lock", "rf_lock", "su_lock", "rl_lock" }

\* C40: a goroutine that calls Lock does not hold dbMutex, a handler that
\* has returned does not hold it, every goroutine that waits for dbMutex
\* acquires it, and every RPC that has started returns.
C40_LockCannotDeadlock ==
    /\ [](\A w \in LockingWorkers :
            /\ pc[w] \in LockLabels => dbMutex # Some(w)
            /\ Done(w) => dbMutex # Some(w))
    /\ \A w \in LockingWorkers :
        /\ pc[w] \in LockLabels ~> dbMutex = Some(w)
        /\ pc[w] # "idle" ~> Done(w)

\* C40 (witness): SnoozeUntilUpdate has refreshed and waits for dbMutex
\* while the discovery pass holds it after a failed store access
C40_SnoozeWaitsForThePass ==
    /\ op["h"] = "SnoozeUntilUpdate" /\ pc["h"] = "su_lock"
    /\ dbMutex = Some("p")
    /\ loc["p"].err

====
